---- MODULE Spec2Model ----
(***************************************************************************)
(* provision-ble: the BLE provisioning state machine (gatt/state.cpp), the *)
(* characteristic base (gatt/characteristic.cpp), the Command parser       *)
(* (gatt/command.cpp), the Wi-Fi scan and connect utilities, the IPv4      *)
(* monitor thread and its hand-off to the GLib main loop.                  *)
(*                                                                         *)
(* Byte strings are TLA+ strings, one character per byte; the byte at      *)
(* position i of s is SubSeq(s, i, i).  TLA+ has no literal for byte 0, so *)
(* the model writes byte 0 as the form-feed literal (see NUL).             *)
(***************************************************************************)
EXTENDS Integers, Sequences, FiniteSets, TLC

\* ------------------------------------------------------------------------
\* Bounds of the model
\* ------------------------------------------------------------------------
MaxAps == 2
MaxIdle == 1
MaxSsids == 3
MaxSortAps == 3
MaxBytes == 3
MaxFields == 2
MaxPosts == 3
MaxScans == 1

\* ------------------------------------------------------------------------
\* Program constants
\* ------------------------------------------------------------------------
MAX_NOTIFY_BYTES == 200

CHR_DEVINFO == "/org/bluez/provision/char0"
CHR_STATE == "/org/bluez/provision/char1"
CHR_COMMAND == "/org/bluez/provision/char2"

Paths == {CHR_DEVINFO, CHR_STATE, CHR_COMMAND}

States == {"UNCONFIGURED", "SCANNING", "SCAN_COMPLETE", "CONNECTING", "CONNECTED"}

DEVICEINFO_JSON ==
    "{\"Company\":\"PiDevelop.com\",\"Developer\":\"james@pidevelop.com\",\"project_name\":\"Provision BLE\"}"

\* A C string ends at byte 0.
NUL == "\f"

\* ------------------------------------------------------------------------
\* Byte-string helpers
\* ------------------------------------------------------------------------
At(s, i) == SubSeq(s, i, i)

\* std::string::find(needle, from): positions are 1-based here, 0 is npos.
Find(s, needle, from) ==
    LET n == Len(needle)
        hits == {k \in from..(Len(s) - n + 1) : SubSeq(s, k, k + n - 1) = needle}
    IN  IF hits = {} THEN 0 ELSE CHOOSE k \in hits : \A j \in hits : k <= j

RECURSIVE Rep(_, _)
Rep(c, n) ==
    IF n = 0 THEN ""
    ELSE IF n = 1 THEN c
    ELSE Rep(c, n \div 2) \o Rep(c, n - (n \div 2))

\* const char* view of a std::string: the bytes before the first byte 0.
c_str(s) ==
    IF \A k \in 1..Len(s) : At(s, k) # NUL THEN s
    ELSE SubSeq(s, 1, Find(s, NUL, 1) - 1)

\* ------------------------------------------------------------------------
\* gatt/state.cpp: payload builders
\* ------------------------------------------------------------------------
make_ay_from_string(str) == c_str(str)

make_state_payload(state) == make_ay_from_string("{\"state\":\"" \o state \o "\"}")

EscapeByte(c) ==
    IF c = "\\" THEN "\\\\"
    ELSE IF c = "\"" THEN "\\\""
    ELSE IF c = "\n" THEN "\\n"
    ELSE IF c = "\r" THEN "\\r"
    ELSE IF c = "\t" THEN "\\t"
    ELSE IF c = NUL THEN "?"
    ELSE c

\* The escapes of bytes lo..hi of in, concatenated in order.
RECURSIVE EscapeRange(_, _, _)
EscapeRange(in, lo, hi) ==
    IF lo > hi THEN ""
    ELSE IF lo = hi THEN EscapeByte(At(in, lo))
    ELSE LET mid == (lo + hi) \div 2
         IN  EscapeRange(in, lo, mid) \o EscapeRange(in, mid + 1, hi)

json_escape(in) == EscapeRange(in, 1, Len(in))

\* json_escape on byte values 0..255 (a std::string holds any byte).
\* EscapeCodes with the byte compared as a signed char.
EscapeCodes_signed_char(b) ==
    IF b = 92 THEN <<92, 92>>
    ELSE IF b = 34 THEN <<92, 34>>
    ELSE IF b = 10 THEN <<92, 110>>
    ELSE IF b = 13 THEN <<92, 114>>
    ELSE IF b = 9 THEN <<92, 116>>
    ELSE IF (IF b >= 128 THEN b - 256 ELSE b) < 32 THEN <<63>>
    ELSE <<b>>

\* What the switch appends for the byte b: '\\' is 92, '"' 34, '\n' 10,
\* '\r' 13, '\t' 9, 'n' 110, 'r' 114, 't' 116, '?' 63; 0x20 is 32.
EscapeCodes(b) ==
    IF b = 92 THEN <<92, 92>>
    ELSE IF b = 34 THEN <<92, 34>>
    ELSE IF b = 10 THEN <<92, 110>>
    ELSE IF b = 13 THEN <<92, 114>>
    ELSE IF b = 9 THEN <<92, 116>>
    ELSE IF b < 32 THEN <<63>>
    ELSE <<b>>

RECURSIVE json_escape_codes(_)
json_escape_codes(in) ==
    IF in = <<>> THEN <<>>
    ELSE EscapeCodes(Head(in)) \o json_escape_codes(Tail(in))

\* The byte values that have a character in the strings of this module.
CharOf ==
    (0 :> NUL) @@ (9 :> "\t") @@ (10 :> "\n") @@ (13 :> "\r") @@ (32 :> " ")
    @@ (34 :> "\"") @@ (63 :> "?") @@ (65 :> "A") @@ (92 :> "\\") @@ (110 :> "n")
    @@ (114 :> "r") @@ (116 :> "t")

Representable(bytes) == \A i \in 1..Len(bytes) : bytes[i] \in DOMAIN CharOf

RECURSIVE BytesToString(_)
BytesToString(bytes) ==
    IF bytes = <<>> THEN "" ELSE CharOf[Head(bytes)] \o BytesToString(Tail(bytes))

ScanEntry(first, ssid) == (IF first THEN "" ELSE ",") \o "\"" \o json_escape(ssid) \o "\""

\* ScanLoop that skips an entry that does not fit and goes on with the next.
RECURSIVE ScanLoop_skip(_, _, _, _)
ScanLoop_skip(payload, first, ssids, i) ==
    IF i > Len(ssids) THEN payload
    ELSE LET entry == ScanEntry(first, ssids[i])
         IN  IF Len(payload) + Len(entry) + 2 > MAX_NOTIFY_BYTES
             THEN ScanLoop_skip(payload, first, ssids, i + 1)
             ELSE ScanLoop_skip(payload \o entry, FALSE, ssids, i + 1)

\* ScanLoop without the two bytes reserved for the closing "]}".
RECURSIVE ScanLoop_no_closing(_, _, _, _)
ScanLoop_no_closing(payload, first, ssids, i) ==
    IF i > Len(ssids) THEN payload
    ELSE LET entry == ScanEntry(first, ssids[i])
         IN  IF Len(payload) + Len(entry) > MAX_NOTIFY_BYTES
             THEN payload
             ELSE ScanLoop_no_closing(payload \o entry, FALSE, ssids, i + 1)

RECURSIVE ScanLoop(_, _, _, _)
ScanLoop(payload, first, ssids, i) ==
    IF i > Len(ssids) THEN payload
    ELSE LET entry == ScanEntry(first, ssids[i])
         IN  IF Len(payload) + Len(entry) + 2 > MAX_NOTIFY_BYTES
             THEN payload
             ELSE ScanLoop(payload \o entry, FALSE, ssids, i + 1)

build_wifi_scan_payload(ssids) ==
    ScanLoop("{\"op\":\"wifi_scan\",\"ssids\":[", TRUE, ssids, 1) \o "]}"

connected_payload(ssid, ip) ==
    "{" \o "\"state\":\"CONNECTED\"," \o "\"ssid\":\"" \o json_escape(ssid) \o "\","
        \o "\"ip\":\"" \o json_escape(ip) \o "\"" \o "}"

\* ------------------------------------------------------------------------
\* wifi/scan.cpp: the scan utility
\* ------------------------------------------------------------------------
\* The environment of one scan: whether nm_client_new succeeds, whether a
\* Wi-Fi device exists, whether the scan request fails, whether the access
\* point array is NULL, and the access points [ssid, strength] in the order
\* NetworkManager lists them (ssid "" is a hidden network or missing bytes).
ScanSsids == {"HomeNet", "Cafe"}
Strengths == {40, 80}
AccessPoints == [ssid : ScanSsids \cup {""}, strength : Strengths]

RECURSIVE ApLists(_)
ApLists(n) ==
    IF n = 0 THEN {<<>>}
    ELSE ApLists(n - 1) \cup {Append(l, a) : l \in {x \in ApLists(n - 1) : Len(x) = n - 1}, a \in AccessPoints}

ScanEnvs ==
    {[client |-> FALSE, wifi |-> FALSE, reqErr |-> FALSE, apsNull |-> FALSE, aps |-> <<>>],
     [client |-> TRUE, wifi |-> FALSE, reqErr |-> FALSE, apsNull |-> FALSE, aps |-> <<>>],
     [client |-> TRUE, wifi |-> TRUE, reqErr |-> TRUE, apsNull |-> TRUE, aps |-> <<>>]}
    \cup [client : {TRUE}, wifi : {TRUE}, reqErr : BOOLEAN, apsNull : {FALSE}, aps : ApLists(MaxAps)]

ssid_to_string(ssid_bytes) == ssid_bytes

\* BestLoop that keeps the strength of the first access point of an SSID.
RECURSIVE BestLoop_first_seen(_, _, _)
BestLoop_first_seen(best, aps, i) ==
    IF i > Len(aps) THEN best
    ELSE LET ssid == ssid_to_string(aps[i].ssid)
             strength == aps[i].strength
         IN  IF ssid = "" \/ ssid \in DOMAIN best
             THEN BestLoop_first_seen(best, aps, i + 1)
             ELSE BestLoop_first_seen([k \in DOMAIN best \cup {ssid} |->
                                          IF k = ssid THEN strength ELSE best[k]],
                                      aps, i + 1)

\* std::map<std::string, int> best_strength, as a function on its keys.
RECURSIVE BestLoop(_, _, _)
BestLoop(best, aps, i) ==
    IF i > Len(aps) THEN best
    ELSE LET ssid == ssid_to_string(aps[i].ssid)
             strength == aps[i].strength
         IN  IF ssid = "" THEN BestLoop(best, aps, i + 1)
             ELSE IF ssid \notin DOMAIN best
                  THEN BestLoop([k \in DOMAIN best \cup {ssid} |->
                                    IF k = ssid THEN strength ELSE best[k]], aps, i + 1)
                  ELSE IF strength > best[ssid]
                       THEN BestLoop([best EXCEPT ![ssid] = strength], aps, i + 1)
                       ELSE BestLoop(best, aps, i + 1)

best_strength(aps) == BestLoop([k \in {} |-> 0], aps, 1)

\* std::sort with the comparator a.second > b.second: std::sort is not
\* stable, so entries of equal strength come out in any order.
SortedOrders(best) ==
    LET n == Cardinality(DOMAIN best)
    IN  {r \in [1..n -> DOMAIN best] :
            /\ \A i, j \in 1..n : i # j => r[i] # r[j]
            /\ \A i, j \in 1..n : i < j => best[r[i]] >= best[r[j]]}

\* The lists scan_ssids() can return, and the busy flag when it returns.
scan_ssids(busy, env) ==
    IF busy THEN {<<>>}
    ELSE IF ~env.client THEN {<<>>}
    ELSE IF ~env.wifi THEN {<<>>}
    ELSE IF env.apsNull THEN {<<>>}
    ELSE SortedOrders(best_strength(env.aps))

\* ScanBusyAfter for a guard that never clears the flag.
ScanBusyAfter_never_released(busy) == TRUE

ScanBusyAfter(busy) == IF busy THEN busy ELSE FALSE

\* Every list a scan that finds the flag clear can return.
ScanReturns == UNION {scan_ssids(FALSE, env) : env \in ScanEnvs}

\* ------------------------------------------------------------------------
\* wifi/connect.cpp
\* ------------------------------------------------------------------------
ConnectEnvs ==
    {[client |-> FALSE, wifi |-> FALSE], [client |-> TRUE, wifi |-> FALSE],
     [client |-> TRUE, wifi |-> TRUE]}

connect(ssid, psk, env) ==
    IF ~env.client THEN [result |-> "FAILED", request |-> <<>>]
    ELSE IF ~env.wifi THEN [result |-> "FAILED", request |-> <<>>]
    ELSE [result |-> "REQUESTED",
          request |-> <<[id |-> c_str(ssid), ssid |-> ssid, psk |-> c_str(psk)]>>]

\* ------------------------------------------------------------------------
\* gatt/command.cpp: the Command parser
\* ------------------------------------------------------------------------
ay_to_string(value) == value

json_get_string(payload, key) ==
    LET needle == "\"" \o key \o "\""
        k == Find(payload, needle, 1)
        colon == IF k = 0 THEN 0 ELSE Find(payload, ":", k + Len(needle))
        q1 == IF colon = 0 THEN 0 ELSE Find(payload, "\"", colon + 1)
        q2 == IF q1 = 0 THEN 0 ELSE Find(payload, "\"", q1 + 1)
    IN  IF k = 0 \/ colon = 0 \/ q1 = 0 THEN ""
        ELSE IF q2 = 0 \/ q2 <= q1 + 1 THEN ""
        ELSE SubSeq(payload, q1 + 1, q2 - 1)

\* ParseCommand without the legacy cmd alias.
ParseCommand_no_legacy(payload) ==
    [op |-> json_get_string(payload, "op"),
     ssid |-> json_get_string(payload, "ssid"),
     psk |-> json_get_string(payload, "psk")]

\* The fields on_write_command extracts: op (with the legacy cmd alias),
\* ssid and psk.
ParseCommand(payload) ==
    LET op == json_get_string(payload, "op")
        cmd == json_get_string(payload, "cmd")
    IN  [op |-> IF op # "" THEN op
                ELSE IF cmd = "wifi.scan" THEN "wifi_scan"
                ELSE IF cmd = "wifi.connect" THEN "wifi_connect"
                ELSE op,
         ssid |-> json_get_string(payload, "ssid"),
         psk |-> json_get_string(payload, "psk")]

\* ------------------------------------------------------------------------
\* State
\* ------------------------------------------------------------------------
VARIABLES
    pc,              \* main(): the step the main thread executes next
    monitor,         \* the netlink thread: "none", "listening"
    idle,            \* on_ipv4_ready idle sources attached to the main context
    g_state,         \* state.cpp: g_state
    g_chars,         \* characteristic.cpp: keys of g_chars
    notifying,       \* CharContext::notifying, per object path
    value_ay,        \* CharContext::value_ay, per object path (<<>> is nullptr)
    g_scan_busy,     \* scan.cpp: g_scan_busy
    wlan,            \* NetworkManager: wlan0's active access point and address
    trace,           \* what the latest handler run did, in program order
    last,            \* the latest handler run: which, where, on what input
    prev,            \* the run before it, when both are runs of on_ipv4_ready
    registration     \* main.cpp: how far start_async_registration has come
\* trace, last and prev are history variables; they are reset when wlan0
\* changes, so that last.env is what wlan0 still reports.

vars == <<pc, monitor, idle, g_state, g_chars, notifying, value_ay, g_scan_busy,
          wlan, trace, last, prev, registration>>

Ips == {"192.168.1.20"}
WlanSsids == {"HomeNet", "a\"b"}
WlanStates == [ap : {<<>>} \cup {<<s>> : s \in WlanSsids}, ip : {""} \cup Ips]
NmStates == {"ok", "no_client", "no_device"}

\* The payloads written to Command.
Commands ==
    {"",
     "{\"op\":\"wifi_scan\"}",
     "{\"cmd\":\"wifi.scan\"}",
     "{\"op\":\"wifi_connect\",\"ssid\":\"HomeNet\",\"psk\":\"secret\"}",
     "{\"cmd\":\"wifi.connect\",\"ssid\":\"HomeNet\",\"psk\":\"secret\"}",
     "{\"op\":\"wifi_connect\",\"psk\":\"secret\"}",
     "{\"op\":\"reboot\"}",
     "{\"ssid\":\"HomeNet\"}",
     "{\"op\":\"wifi_connect\",\"ssid\":\"\",\"psk\":\"secret\"}",
     "{\"cmd\":\"wifi.connect\",\"psk\":\"secret\"}",
     "{\"cmd\":\"reboot\"}",
     "{\"op\":\"wifi_scan\",\"cmd\":\"wifi.connect\",\"ssid\":\"HomeNet\"}",
     "{\"op\":\"\",\"cmd\":\"wifi.scan\"}",
     "not json"}

\* ParseCommand on each of them, computed once.
Parsed == [c \in Commands |-> ParseCommand(c)]

\* The fields of a payload: looked up in Parsed, computed for any other.
Extracted(payload) ==
    IF payload \in Commands THEN Parsed[payload] ELSE ParseCommand(payload)

\* Entries of trace.
EvSet(state) == [k |-> "set", path |-> "", v |-> state, sent |-> FALSE]
EvNotify(path, value, sent) == [k |-> "notify", path |-> path, v |-> value, sent |-> sent]
EvScan == [k |-> "scan", path |-> "", v |-> "", sent |-> FALSE]
EvSubmit(result) == [k |-> "submit", path |-> "", v |-> result, sent |-> FALSE]

NoRun ==
    [op |-> "none", path |-> "", thread |-> "", pre |-> "", nm |-> "",
     env |-> <<>>, arg |-> "", ssids |-> <<>>, reply |-> ""]
NoPrev == [valid |-> FALSE, nm |-> "", trace |-> <<>>]

\* The program's data as one record, so that a handler is the composition of
\* the functions it calls.
Data ==
    [g_state |-> g_state, g_chars |-> g_chars, notifying |-> notifying,
     value_ay |-> value_ay, g_scan_busy |-> g_scan_busy, trace |-> <<>>]

Log(m, ev) == [m EXCEPT !.trace = Append(@, ev)]

\* ------------------------------------------------------------------------
\* gatt/characteristic.cpp
\* ------------------------------------------------------------------------
\* emit_value_changed: ctx and system_bus are set for every exported
\* characteristic and value_ay was just assigned, so the signal is emitted.
\* emit_value_changed that sends an empty array instead of the cached value.
emit_value_changed_empty(m, path) == Log(m, EvNotify(path, "", TRUE))

emit_value_changed(m, path) == Log(m, EvNotify(path, m.value_ay[path][1], TRUE))

\* notify_characteristic_value that does not look at the notifying flag.
notify_characteristic_value_ignores_flag(m, object_path, value) ==
    IF object_path \notin m.g_chars THEN Log(m, EvNotify(object_path, value, FALSE))
    ELSE emit_value_changed([m EXCEPT !.value_ay[object_path] = <<value>>], object_path)

\* notify_characteristic_value that skips a value equal to the cached one.
notify_characteristic_value_dedup(m, object_path, value) ==
    IF object_path \notin m.g_chars THEN Log(m, EvNotify(object_path, value, FALSE))
    ELSE IF ~m.notifying[object_path] THEN Log(m, EvNotify(object_path, value, FALSE))
    ELSE IF m.value_ay[object_path] = <<value>> THEN Log(m, EvNotify(object_path, value, FALSE))
    ELSE emit_value_changed([m EXCEPT !.value_ay[object_path] = <<value>>], object_path)

notify_characteristic_value(m, object_path, value) ==
    IF object_path \notin m.g_chars THEN Log(m, EvNotify(object_path, value, FALSE))
    ELSE IF ~m.notifying[object_path] THEN Log(m, EvNotify(object_path, value, FALSE))
    ELSE emit_value_changed([m EXCEPT !.value_ay[object_path] = <<value>>], object_path)

\* ------------------------------------------------------------------------
\* gatt/state.cpp: the provisioning state machine
\* ------------------------------------------------------------------------
\* The byte arrays the state machine builds, computed once for the states,
\* the scan results and the (ssid, ip) pairs of the model; any other
\* argument is computed on the spot.
StatePayloads == [state \in States |-> make_state_payload(state)]

ScanPayloads ==
    [ssids \in ScanReturns |-> make_ay_from_string(build_wifi_scan_payload(ssids))]

ConnectedPayloads ==
    [p \in ({"unknown"} \cup WlanSsids) \X Ips |->
        make_ay_from_string(connected_payload(p[1], p[2]))]

state_value(state) == StatePayloads[state]

scan_value(ssids) ==
    IF ssids \in ScanReturns THEN ScanPayloads[ssids]
    ELSE make_ay_from_string(build_wifi_scan_payload(ssids))

connected_value(ssid, ip) ==
    IF <<ssid, ip>> \in DOMAIN ConnectedPayloads THEN ConnectedPayloads[<<ssid, ip>>]
    ELSE make_ay_from_string(connected_payload(ssid, ip))

\* SetState that assigns only while State is notifying.
SetState_if_notifying(m, state) ==
    IF m.notifying[CHR_STATE]
    THEN Log([m EXCEPT !.g_state = state], EvSet(state))
    ELSE m

SetState(m, state) == Log([m EXCEPT !.g_state = state], EvSet(state))

notify_state(m) == notify_characteristic_value(m, CHR_STATE, state_value(m.g_state))

\* on_read_state that answers with the cached value when there is one.
on_read_state_cached(m) ==
    IF m.value_ay[CHR_STATE] # <<>> THEN m.value_ay[CHR_STATE][1]
    ELSE state_value(m.g_state)

on_read_state(m) == state_value(m.g_state)

\* on_read_device_info that returns the terminating byte as well.
on_read_device_info_with_terminator == DEVICEINFO_JSON \o NUL

on_read_device_info == make_ay_from_string(DEVICEINFO_JSON)

\* notify_state_connected that does nothing when the state is CONNECTED.
notify_state_connected_once(m, ssid, ip) ==
    IF m.g_state = "CONNECTED" THEN m
    ELSE notify_characteristic_value(SetState(m, "CONNECTED"), CHR_STATE,
                                     make_ay_from_string(connected_payload(ssid, ip)))

notify_state_connected(m, ssid, ip) ==
    notify_characteristic_value(SetState(m, "CONNECTED"), CHR_STATE, connected_value(ssid, ip))

\* handle_wifi_scan_request that reports SCAN_COMPLETE before the SSID list.
handle_wifi_scan_request_early_complete(m, ssids) ==
    LET m1 == notify_state(SetState(m, "SCANNING"))
        m2 == Log([m1 EXCEPT !.g_scan_busy = ScanBusyAfter(@)], EvScan)
        m3 == notify_state(SetState(m2, "SCAN_COMPLETE"))
    IN  notify_characteristic_value(m3, CHR_STATE,
            make_ay_from_string(build_wifi_scan_payload(ssids)))

\* handle_wifi_scan_request that gives up when the scan returns nothing.
handle_wifi_scan_request_aborts_empty(m, ssids) ==
    LET m1 == notify_state(SetState(m, "SCANNING"))
        m2 == Log([m1 EXCEPT !.g_scan_busy = ScanBusyAfter(@)], EvScan)
        m3 == notify_characteristic_value(m2, CHR_STATE, scan_value(ssids))
    IN  IF ssids = <<>> THEN m2 ELSE notify_state(SetState(m3, "SCAN_COMPLETE"))

\* handle_wifi_scan_request that returns after the SSID list.
handle_wifi_scan_request_no_complete(m, ssids) ==
    LET m1 == notify_state(SetState(m, "SCANNING"))
        m2 == Log([m1 EXCEPT !.g_scan_busy = ScanBusyAfter(@)], EvScan)
    IN  notify_characteristic_value(m2, CHR_STATE, scan_value(ssids))

\* ssids is the list scan_ssids() returned.
handle_wifi_scan_request(m, ssids) ==
    LET m1 == notify_state(SetState(m, "SCANNING"))
        m2 == Log([m1 EXCEPT !.g_scan_busy = ScanBusyAfter(@)], EvScan)
        m3 == notify_characteristic_value(m2, CHR_STATE, scan_value(ssids))
    IN  notify_state(SetState(m3, "SCAN_COMPLETE"))

\* handle_wifi_connect_request that submits before it reports CONNECTING.
handle_wifi_connect_request_submit_first(m, ssid, psk, env) ==
    LET r == connect(ssid, psk, env)
        m1 == Log(m, EvSubmit(r.result))
        m2 == notify_state(SetState(m1, "CONNECTING"))
    IN  IF r.result # "REQUESTED"
        THEN notify_state(SetState(m2, "UNCONFIGURED"))
        ELSE m2

\* handle_wifi_connect_request that reverts without notifying.
handle_wifi_connect_request_silent_revert(m, ssid, psk, env) ==
    LET m1 == notify_state(SetState(m, "CONNECTING"))
        r == connect(ssid, psk, env)
        m2 == Log(m1, EvSubmit(r.result))
    IN  IF r.result # "REQUESTED"
        THEN SetState(m2, "UNCONFIGURED")
        ELSE m2

\* handle_wifi_connect_request that reports CONNECTED once the request is in.
handle_wifi_connect_request_optimistic(m, ssid, psk, env) ==
    LET m1 == notify_state(SetState(m, "CONNECTING"))
        r == connect(ssid, psk, env)
        m2 == Log(m1, EvSubmit(r.result))
    IN  IF r.result # "REQUESTED"
        THEN notify_state(SetState(m2, "UNCONFIGURED"))
        ELSE notify_state(SetState(m2, "CONNECTED"))

handle_wifi_connect_request(m, ssid, psk, env) ==
    LET m1 == notify_state(SetState(m, "CONNECTING"))
        r == connect(ssid, psk, env)
        m2 == Log(m1, EvSubmit(r.result))
    IN  IF r.result # "REQUESTED"
        THEN notify_state(SetState(m2, "UNCONFIGURED"))
        ELSE m2

\* ------------------------------------------------------------------------
\* wifi/wifi_state_dispatcher.cpp
\* ------------------------------------------------------------------------
\* nm: whether nm_client_new and the lookup of wlan0 succeed; w: what wlan0
\* reports (no active access point or no SSID bytes is ap = <<>>; no IPv4
\* configuration or no address is ip = "").
\* on_ipv4_ready without the "unknown" default for the SSID.
on_ipv4_ready_empty_ssid(m, nm, w) ==
    IF nm = "no_client" THEN m
    ELSE IF nm = "no_device" THEN m
    ELSE LET ssid == IF w.ap = <<>> THEN "" ELSE w.ap[1]
             ip == c_str(w.ip)
         IN  IF ip # "" THEN notify_state_connected(m, ssid, ip) ELSE m

\* on_ipv4_ready without the check that the address is not empty.
on_ipv4_ready_no_ip_check(m, nm, w) ==
    IF nm = "no_client" THEN m
    ELSE IF nm = "no_device" THEN m
    ELSE LET ssid == IF w.ap = <<>> THEN "unknown" ELSE w.ap[1]
             ip == c_str(w.ip)
         IN  notify_state_connected(m, ssid, ip)

on_ipv4_ready(m, nm, w) ==
    IF nm = "no_client" THEN m
    ELSE IF nm = "no_device" THEN m
    ELSE LET ssid == IF w.ap = <<>> THEN "unknown" ELSE w.ap[1]
             ip == c_str(w.ip)
         IN  IF ip # "" THEN notify_state_connected(m, ssid, ip) ELSE m

\* on_state_notify that consults wlan0 only when the state is CONNECTED.
on_state_notify_only_connected(m, enabled, nm, w) ==
    IF ~enabled THEN m
    ELSE IF m.g_state # "CONNECTED" THEN m
    ELSE on_ipv4_ready(m, nm, w)

\* on_state_notify that gives up a pending connection on StopNotify.
on_state_notify_stop_resets(m, enabled, nm, w) ==
    IF ~enabled
    THEN IF m.g_state = "CONNECTING" THEN SetState(m, "UNCONFIGURED") ELSE m
    ELSE on_ipv4_ready(m, nm, w)

on_state_notify(m, enabled, nm, w) ==
    IF ~enabled THEN m ELSE on_ipv4_ready(m, nm, w)

\* ------------------------------------------------------------------------
\* gatt/command.cpp: on_write_command
\* ------------------------------------------------------------------------
\* on_write_command without the check that the ssid is not empty.
on_write_command_no_ssid_check(m, value, ssids, cenv) ==
    LET payload == ay_to_string(value)
        op == Parsed[payload].op
        ssid == Parsed[payload].ssid
        psk == Parsed[payload].psk
    IN  IF payload = "" THEN m
        ELSE IF op = "wifi_scan" THEN handle_wifi_scan_request(m, ssids)
        ELSE IF op = "wifi_connect" THEN handle_wifi_connect_request(m, ssid, psk, cenv)
        ELSE m

\* on_write_command that scans on an op it does not know.
on_write_command_unknown_scans(m, value, ssids, cenv) ==
    LET payload == ay_to_string(value)
        op == Parsed[payload].op
        ssid == Parsed[payload].ssid
        psk == Parsed[payload].psk
    IN  IF payload = "" THEN m
        ELSE IF op = "wifi_connect"
             THEN IF ssid = "" THEN m ELSE handle_wifi_connect_request(m, ssid, psk, cenv)
             ELSE IF op # "" THEN handle_wifi_scan_request(m, ssids)
             ELSE m

on_write_command(m, value, ssids, cenv) ==
    LET payload == ay_to_string(value)
        op == Extracted(payload).op
        ssid == Extracted(payload).ssid
        psk == Extracted(payload).psk
    IN  IF payload = "" THEN m
        ELSE IF op = "wifi_scan" THEN handle_wifi_scan_request(m, ssids)
        ELSE IF op = "wifi_connect"
             THEN IF ssid = "" THEN m ELSE handle_wifi_connect_request(m, ssid, psk, cenv)
             ELSE m

\* ------------------------------------------------------------------------
\* Bookkeeping shared by the actions
\* ------------------------------------------------------------------------
Commit(m) ==
    /\ g_state' = m.g_state
    /\ g_chars' = m.g_chars
    /\ notifying' = m.notifying
    /\ value_ay' = m.value_ay
    /\ g_scan_busy' = m.g_scan_busy
    /\ trace' = m.trace

Run(op, path, thread, nm, env, arg, ssids, reply) ==
    [op |-> op, path |-> path, thread |-> thread, pre |-> g_state, nm |-> nm,
     env |-> env, arg |-> arg, ssids |-> ssids, reply |-> reply]

Handled(result, run) ==
    /\ \E m \in {result} : Commit(m)
    /\ last' = run
    /\ prev' = IF run.op = "ipv4_ready" /\ last.op = "ipv4_ready"
               THEN [valid |-> TRUE, nm |-> last.nm, trace |-> trace]
               ELSE NoPrev

\* ------------------------------------------------------------------------
\* main(): start-up on the main thread
\* ------------------------------------------------------------------------
\* export_characteristic that starts a characteristic as notifying.
export_characteristic_notifying(m, object_path, read_value) ==
    [m EXCEPT !.value_ay[object_path] = read_value,
              !.notifying[object_path] = TRUE,
              !.g_chars = @ \cup {object_path}]

export_characteristic(m, object_path, read_value) ==
    [m EXCEPT !.value_ay[object_path] = read_value,
              !.notifying[object_path] = FALSE,
              !.g_chars = @ \cup {object_path}]

start_ip_monitor ==
    /\ pc = "start_ip_monitor"
    /\ pc' = "export_device_info"
    /\ monitor' = "listening"
    /\ UNCHANGED <<registration, idle, g_state, g_chars, notifying, value_ay, g_scan_busy, wlan,
                   trace, last, prev>>

export_device_info ==
    /\ pc = "export_device_info"
    /\ pc' = "export_state"
    /\ Commit([export_characteristic(Data, CHR_DEVINFO, <<on_read_device_info>>)
                  EXCEPT !.trace = trace])
    /\ UNCHANGED <<registration, monitor, idle, wlan, last, prev>>

export_state ==
    /\ pc = "export_state"
    /\ pc' = "export_command"
    /\ Commit([export_characteristic(Data, CHR_STATE, <<on_read_state(Data)>>)
                  EXCEPT !.trace = trace])
    /\ UNCHANGED <<registration, monitor, idle, wlan, last, prev>>

export_command ==
    /\ pc = "export_command"
    /\ pc' = "find_adapter"
    /\ Commit([export_characteristic(Data, CHR_COMMAND, <<>>) EXCEPT !.trace = trace])
    /\ UNCHANGED <<registration, monitor, idle, wlan, last, prev>>

\* export_advertisement, find_adapter, g_main_loop_new, g_idle_add and the
\* entry into g_main_loop_run, which acquires the default main context.
g_main_loop_run ==
    /\ pc = "find_adapter"
    /\ pc' = "loop"
    /\ UNCHANGED <<registration, monitor, idle, g_state, g_chars, notifying, value_ay, g_scan_busy,
                   wlan, trace, last, prev>>

\* An export or find_adapter throws: main() logs and returns 1.
StartupFails ==
    /\ pc \in {"export_device_info", "export_state", "export_command", "find_adapter"}
    /\ pc' = "exit"
    /\ UNCHANGED <<registration, monitor, idle, g_state, g_chars, notifying, value_ay, g_scan_busy,
                   wlan, trace, last, prev>>

\* ------------------------------------------------------------------------
\* main.cpp: the registration with BlueZ, run by the main loop
\* ------------------------------------------------------------------------
\* registration is "none" until the idle source start_async_registration
\* has run, then the call in flight or the outcome.  No handler of the
\* program reads the outcome.
\* The idle source: register_gatt_application_async sends RegisterApplication.
start_async_registration ==
    /\ pc = "loop"
    /\ registration = "none"
    /\ registration' = "RegisterApplication"
    /\ UNCHANGED <<pc, monitor, idle, g_state, g_chars, notifying, value_ay, g_scan_busy,
                   wlan, trace, last, prev>>

\* on_async_call_finished for RegisterApplication: on an error the callback
\* logs and frees ctx; otherwise it sends RegisterAdvertisement.
on_application_registered ==
    /\ pc = "loop"
    /\ registration = "RegisterApplication"
    /\ \E ok \in BOOLEAN :
          registration' = IF ok THEN "RegisterAdvertisement" ELSE "application_failed"
    /\ UNCHANGED <<pc, monitor, idle, g_state, g_chars, notifying, value_ay, g_scan_busy,
                   wlan, trace, last, prev>>

\* on_async_call_finished for RegisterAdvertisement: the callback logs the
\* outcome and frees ctx.
on_advertisement_registered ==
    /\ pc = "loop"
    /\ registration = "RegisterAdvertisement"
    /\ \E ok2 \in BOOLEAN :
          registration' = IF ok2 THEN "registered" ELSE "advertisement_failed"
    /\ UNCHANGED <<pc, monitor, idle, g_state, g_chars, notifying, value_ay, g_scan_busy,
                   wlan, trace, last, prev>>

\* ------------------------------------------------------------------------
\* wifi/ip_monitor.cpp: the netlink thread
\* ------------------------------------------------------------------------
Running == pc # "exit"

\* g_main_context_invoke(nullptr, ...) calls the function at once when the
\* calling thread owns the default main context or can acquire it, and
\* attaches an idle source to the context otherwise.  The main thread owns
\* the context from its entry into g_main_loop_run.
MainOwnsContext == pc = "loop"

MsgTypes == {"RTM_NEWADDR", "RTM_DELADDR"}
Families == {"AF_INET", "AF_INET6"}
IfNames == {"wlan0", "eth0"}

\* PostsIpv4Ready that does not look at the message type.
PostsIpv4Ready_any_type(m) ==
    /\ m.family = "AF_INET"
    /\ m.ifname = "wlan0"

PostsIpv4Ready(m) ==
    /\ m.type = "RTM_NEWADDR"
    /\ m.family = "AF_INET"
    /\ m.ifname = "wlan0"

\* One message of the receive loop that posts nothing.
ip_monitor_skip ==
    /\ Running
    /\ monitor = "listening"
    /\ \E t \in MsgTypes, f \in Families, n \in IfNames :
          /\ ~PostsIpv4Ready([type |-> t, family |-> f, ifname |-> n])
          /\ Handled(Data, Run("netlink_skip", n, "netlink", "", <<>>, t \o " " \o f,
                               <<>>, ""))
    /\ UNCHANGED <<registration, pc, monitor, idle, wlan>>

\* NEWADDR for IPv4 on wlan0 while the main loop owns the context:
\* notify_ipv4_ready attaches an idle source.
ip_monitor_post ==
    /\ Running
    /\ monitor = "listening"
    /\ MainOwnsContext
    /\ idle < MaxIdle
    /\ \E t \in MsgTypes, f \in Families, n \in IfNames :
          /\ PostsIpv4Ready([type |-> t, family |-> f, ifname |-> n])
          /\ idle' = idle + 1
    /\ UNCHANGED <<registration, pc, monitor, g_state, g_chars, notifying, value_ay, g_scan_busy,
                   wlan, trace, last, prev>>

\* NEWADDR for IPv4 on wlan0 while no thread owns the context: the netlink
\* thread acquires it and g_main_context_invoke runs on_ipv4_ready at once.
ip_monitor_direct ==
    /\ Running
    /\ monitor = "listening"
    /\ ~MainOwnsContext
    /\ \E t \in MsgTypes, f \in Families, n \in IfNames, nm \in NmStates :
          /\ PostsIpv4Ready([type |-> t, family |-> f, ifname |-> n])
          /\ Handled(on_ipv4_ready(Data, nm, wlan),
                     Run("ipv4_ready", "", "netlink", nm, <<wlan>>, "", <<>>, ""))
    /\ UNCHANGED <<registration, pc, monitor, idle, wlan>>

\* ------------------------------------------------------------------------
\* The main loop: one action per dispatched callback
\* ------------------------------------------------------------------------
\* The idle source attached by notify_ipv4_ready.
ipv4_ready_idle ==
    /\ pc = "loop"
    /\ idle > 0
    /\ idle' = idle - 1
    /\ \E nm \in NmStates :
          Handled(on_ipv4_ready(Data, nm, wlan),
                  Run("ipv4_ready", "", "main", nm, <<wlan>>, "", <<>>, ""))
    /\ UNCHANGED <<registration, pc, monitor, wlan>>

ReadCallback(m, path) ==
    IF path = CHR_DEVINFO THEN <<on_read_device_info>>
    ELSE IF path = CHR_STATE THEN <<on_read_state(m)>>
    ELSE <<>>

ReadValue ==
    /\ pc = "loop"
    /\ \E path \in g_chars :
          LET cb == ReadCallback(Data, path)
          IN  Handled(Data, Run("ReadValue", path, "main", "", <<>>, "", <<>>,
                                IF cb = <<>> THEN "org.bluez.Error.Failed" ELSE cb[1]))
    /\ UNCHANGED <<registration, pc, monitor, idle, wlan>>

\* on_get_property for "Value" that asks the read callback.
on_get_property_calls_read(m, path) ==
    IF ReadCallback(m, path) = <<>> THEN "" ELSE ReadCallback(m, path)[1]

\* on_get_property for "Value": the cached value, or the empty array while
\* there is none.
on_get_property(m, path) ==
    IF m.value_ay[path] # <<>> THEN m.value_ay[path][1] ELSE ""

\* A read of the Value property (org.freedesktop.DBus.Properties.Get).
GetValue ==
    /\ pc = "loop"
    /\ \E path \in g_chars :
          Handled(Data, Run("Get", path, "main", "", <<>>, "Value", <<>>,
                            on_get_property(Data, path)))
    /\ UNCHANGED <<registration, pc, monitor, idle, wlan>>

\* WriteValueReply that reports a payload the handler ignores as an error.
WriteValueReply_rejects_ignored(path, value) ==
    IF path # CHR_COMMAND THEN "org.bluez.Error.Failed"
    ELSE IF ParseCommand(value).op \notin {"wifi_scan", "wifi_connect"}
         THEN "org.bluez.Error.Failed"
         ELSE "ok"

\* The reply of WriteValue: an error without a write callback, and the empty
\* success reply after the write callback has returned, whatever it did.
WriteValueReply(path, value) ==
    IF path # CHR_COMMAND THEN "org.bluez.Error.Failed" ELSE "ok"

WriteValue ==
    /\ pc = "loop"
    /\ \E path \in g_chars :
          IF path # CHR_COMMAND
          THEN Handled(Data, Run("WriteValue", path, "main", "", <<>>, "", <<>>,
                                 WriteValueReply(path, "")))
          ELSE \E value \in Commands :
                  IF Parsed[value].op = "wifi_scan"
                  THEN \E ssids \in (IF g_scan_busy THEN {<<>>} ELSE ScanReturns) :
                          Handled(on_write_command(Data, value, ssids, [client |-> FALSE, wifi |-> FALSE]),
                                  Run("WriteValue", path, "main", "", <<>>, value, ssids,
                                      WriteValueReply(path, value)))
                  ELSE \E cenv \in (IF Parsed[value].op = "wifi_connect" /\ Parsed[value].ssid # ""
                                     THEN ConnectEnvs
                                     ELSE {[client |-> FALSE, wifi |-> FALSE]}) :
                          Handled(on_write_command(Data, value, <<>>, cenv),
                                  Run("WriteValue", path, "main", "", <<>>, value, <<>>,
                                      WriteValueReply(path, value)))
    /\ UNCHANGED <<registration, pc, monitor, idle, wlan>>

\* StartNotify and StopNotify are methods of every exported characteristic
\* object, whatever its Flags; BlueZ forwards a central's subscription only
\* for a characteristic whose Flags hold "notify", and State is the only
\* one.  paths is the set of characteristics the caller addresses.
NotifyPaths == {CHR_STATE}

\* StartNotifyOn that sets the flag of every characteristic.
StartNotifyOn_every_flag(paths) ==
    \E path \in g_chars \cap paths :
        LET m == [Data EXCEPT !.notifying = [p \in Paths |-> TRUE]]
        IN  IF path = CHR_STATE
            THEN \E nm \in NmStates :
                    Handled(on_state_notify(m, TRUE, nm, wlan),
                            Run("StartNotify", path, "main", nm, <<wlan>>, "", <<>>, "ok"))
            ELSE Handled(m, Run("StartNotify", path, "main", "", <<>>, "", <<>>, "ok"))

StartNotifyOn(paths) ==
    \E path \in g_chars \cap paths :
        LET m == [Data EXCEPT !.notifying[path] = TRUE]
        IN  IF path = CHR_STATE
            THEN \E nm \in NmStates :
                    Handled(on_state_notify(m, TRUE, nm, wlan),
                            Run("StartNotify", path, "main", nm, <<wlan>>, "", <<>>, "ok"))
            ELSE Handled(m, Run("StartNotify", path, "main", "", <<>>, "", <<>>, "ok"))

StartNotify ==
    /\ pc = "loop"
    /\ StartNotifyOn(NotifyPaths)
    /\ UNCHANGED <<registration, pc, monitor, idle, wlan>>

StopNotifyOn(paths) ==
    \E path \in g_chars \cap paths :
        LET m == [Data EXCEPT !.notifying[path] = FALSE]
        IN  IF path = CHR_STATE
            THEN Handled(on_state_notify(m, FALSE, "", wlan),
                         Run("StopNotify", path, "main", "", <<>>, "", <<>>, "ok"))
            ELSE Handled(m, Run("StopNotify", path, "main", "", <<>>, "", <<>>, "ok"))

StopNotify ==
    /\ pc = "loop"
    /\ StopNotifyOn(NotifyPaths)
    /\ UNCHANGED <<registration, pc, monitor, idle, wlan>>

\* ------------------------------------------------------------------------
\* NetworkManager and the radio
\* ------------------------------------------------------------------------
\* wlan0 gains, loses or changes its access point or address: an activation
\* requested by connect() succeeding, a roam, a lease change, a loss of signal.
WlanChanges ==
    /\ Running
    /\ \E w \in WlanStates : w # wlan /\ wlan' = w
    /\ trace' = <<>>
    /\ last' = NoRun
    /\ prev' = NoPrev
    /\ UNCHANGED <<registration, pc, monitor, idle, g_state, g_chars, notifying, value_ay,
                   g_scan_busy>>

\* ------------------------------------------------------------------------
\* Specification
\* ------------------------------------------------------------------------
Init ==
    /\ pc = "start_ip_monitor"
    /\ monitor = "none"
    /\ idle = 0
    /\ g_state = "UNCONFIGURED"
    /\ g_chars = {}
    /\ notifying = [p \in Paths |-> FALSE]
    /\ value_ay = [p \in Paths |-> <<>>]
    /\ g_scan_busy = FALSE
    /\ wlan \in WlanStates
    /\ trace = <<>>
    /\ last = NoRun
    /\ prev = NoPrev
    /\ registration = "none"

Next ==
    \/ start_ip_monitor
    \/ export_device_info
    \/ export_state
    \/ export_command
    \/ g_main_loop_run
    \/ StartupFails
    \/ ip_monitor_skip
    \/ ip_monitor_post
    \/ ip_monitor_direct
    \/ ipv4_ready_idle
    \/ ReadValue
    \/ GetValue
    \/ WriteValue
    \/ StartNotify
    \/ StopNotify
    \/ WlanChanges

Spec == Init /\ [][Next]_vars

\* ------------------------------------------------------------------------
\* Vocabulary of the properties
\* ------------------------------------------------------------------------
IsNotify(e) == e.k = "notify"
IsEmission(e) == e.k = "notify" /\ e.sent

\* The notify_value calls of a run, and those that reached the bus.
Notified(t) == SelectSeq(t, IsNotify)
Emitted(t) == SelectSeq(t, IsEmission)
Values(t) == [i \in 1..Len(t) |-> t[i].v]

StateNotifying == notifying[CHR_STATE]

CommandWrite(op) ==
    /\ last.op = "WriteValue"
    /\ last.path = CHR_COMMAND
    /\ Parsed[last.arg].op = op

ConnectWrite == CommandWrite("wifi_connect") /\ Parsed[last.arg].ssid # ""

Ipv4Run == last.op = "ipv4_ready"

StartNotifyState == last.op = "StartNotify" /\ last.path = CHR_STATE

\* What wlan0 reported to the run: an address, through a reachable client.
SawAddress == last.nm = "ok" /\ last.env # <<>> /\ last.env[1].ip # ""

\* The CONNECTED payload for what wlan0 reports, byte for byte.
ExpectedConnected(w) ==
    IF w.ap = <<>>
    THEN "{\"state\":\"CONNECTED\",\"ssid\":\"unknown\",\"ip\":\"" \o w.ip \o "\"}"
    ELSE IF w.ap[1] = "HomeNet"
    THEN "{\"state\":\"CONNECTED\",\"ssid\":\"HomeNet\",\"ip\":\"" \o w.ip \o "\"}"
    ELSE "{\"state\":\"CONNECTED\",\"ssid\":\"a\\\"b\",\"ip\":\"" \o w.ip \o "\"}"

\* ------------------------------------------------------------------------
\* C1: with State notifying, a wifi_scan write from any state emits exactly
\* {"state":"SCANNING"}, the one scan-result payload and
\* {"state":"SCAN_COMPLETE"}, in this order, and ends in SCAN_COMPLETE.
\* ------------------------------------------------------------------------
C1_ScanOrder ==
    (CommandWrite("wifi_scan") /\ StateNotifying) =>
        /\ Values(Emitted(trace)) =
              <<"{\"state\":\"SCANNING\"}",
                build_wifi_scan_payload(last.ssids),
                "{\"state\":\"SCAN_COMPLETE\"}">>
        /\ SubSeq(Emitted(trace)[2].v, 1, 27) = "{\"op\":\"wifi_scan\",\"ssids\":["
        /\ \A i \in 1..Len(trace) : IsEmission(trace[i]) => trace[i].path = CHR_STATE
        /\ g_state = "SCAN_COMPLETE"

C1_Witness ==
    /\ CommandWrite("wifi_scan")
    /\ StateNotifying
    /\ last.pre = "CONNECTED"
    /\ last.ssids = <<"HomeNet", "Cafe">>
    /\ Len(Emitted(trace)) = 3

\* ------------------------------------------------------------------------
\* C2: every run of the IPv4-ready handler executes on the main-loop
\* thread, also for a NEWADDR that arrives before the main loop runs.
\* ------------------------------------------------------------------------
C2_HandlerOnDispatcher == Ipv4Run => last.thread = "main"

\* ------------------------------------------------------------------------
\* C3: a wifi_connect write with a non-empty ssid, from any state, sets
\* CONNECTING and hands {"state":"CONNECTING"} to notify_value before the
\* activation is submitted; an accepted submission leaves the state
\* CONNECTING and nothing further is notified; UNCONFIGURED is notified only
\* after CONNECTING and CONNECTED never inside the connect handler.
\* ------------------------------------------------------------------------
C3_ConnectingFirst ==
    ConnectWrite =>
        /\ Len(trace) >= 3
        /\ trace[1] = EvSet("CONNECTING")
        /\ trace[2] = EvNotify(CHR_STATE, "{\"state\":\"CONNECTING\"}", StateNotifying)
        /\ trace[3].k = "submit"
        /\ \A i \in 1..Len(trace) : trace[i].k = "submit" => i = 3
        /\ trace[3].v = "REQUESTED" => (Len(trace) = 3 /\ g_state = "CONNECTING")
        /\ \A i \in 3..Len(trace) :
              /\ trace[i] # EvSet("CONNECTED")
              /\ IsNotify(trace[i]) => trace[i].v = "{\"state\":\"UNCONFIGURED\"}"

C3_Witness ==
    /\ ConnectWrite
    /\ last.pre = "CONNECTING"
    /\ StateNotifying
    /\ Len(trace) = 3
    /\ trace[3] = EvSubmit("REQUESTED")
    /\ Values(Emitted(trace)) = <<"{\"state\":\"CONNECTING\"}">>

\* ------------------------------------------------------------------------
\* C4: when the submission of a wifi_connect is not accepted, the handler
\* notifies exactly {"state":"CONNECTING"} then {"state":"UNCONFIGURED"}
\* (both reach the bus when State is notifying) and ends in UNCONFIGURED.
\* ------------------------------------------------------------------------
C4_RejectedReverts ==
    (ConnectWrite /\ \E i \in 1..Len(trace) : trace[i].k = "submit" /\ trace[i].v # "REQUESTED") =>
        /\ Values(Notified(trace)) =
              <<"{\"state\":\"CONNECTING\"}", "{\"state\":\"UNCONFIGURED\"}">>
        /\ \A i \in 1..Len(trace) :
              IsNotify(trace[i]) => (trace[i].sent = StateNotifying /\ trace[i].path = CHR_STATE)
        /\ g_state = "UNCONFIGURED"

C4_Witness ==
    /\ ConnectWrite
    /\ StateNotifying
    /\ last.pre = "SCAN_COMPLETE"
    /\ Values(Emitted(trace)) =
          <<"{\"state\":\"CONNECTING\"}", "{\"state\":\"UNCONFIGURED\"}">>
    /\ g_state = "UNCONFIGURED"

\* ------------------------------------------------------------------------
\* C5: an IPv4-ready run that finds a non-empty first address A on wlan0
\* sets CONNECTED from any state and, when State is notifying, emits exactly
\* one notification {"state":"CONNECTED","ssid":S,"ip":A}, S being the
\* active access point's SSID or "unknown".
\* ------------------------------------------------------------------------
C5_Ipv4ReadyConnects ==
    (Ipv4Run /\ SawAddress) =>
        /\ g_state = "CONNECTED"
        /\ StateNotifying => Values(Emitted(trace)) = <<ExpectedConnected(last.env[1])>>
        /\ ~StateNotifying => Emitted(trace) = <<>>
        /\ Len(Notified(trace)) = 1

C5_Witness ==
    /\ Ipv4Run
    /\ SawAddress
    /\ StateNotifying
    /\ last.pre = "SCAN_COMPLETE"
    /\ last.env[1].ap = <<>>
    /\ Values(Emitted(trace)) =
          <<"{\"state\":\"CONNECTED\",\"ssid\":\"unknown\",\"ip\":\"192.168.1.20\"}">>

\* ------------------------------------------------------------------------
\* C6 as stated: StartNotify on State while the state is not CONNECTED
\* leaves the state unchanged and emits nothing, whatever wlan0's address.
\* ------------------------------------------------------------------------
C6_Original ==
    (StartNotifyState /\ last.pre # "CONNECTED") =>
        /\ g_state = last.pre
        /\ Emitted(trace) = <<>>

\* C6 as amended: StartNotify on State while the state is not CONNECTED
\* leaves the state unchanged and emits nothing when wlan0 reports no IPv4
\* address (or the client or device is unavailable); when wlan0 reports an
\* address it sets CONNECTED and emits the one CONNECTED payload.
C6_StartNotifyConsultsWlan ==
    (StartNotifyState /\ last.pre # "CONNECTED") =>
        /\ StateNotifying
        /\ ~SawAddress => (g_state = last.pre /\ trace = <<>>)
        /\ SawAddress =>
              /\ g_state = "CONNECTED"
              /\ Values(Emitted(trace)) = <<ExpectedConnected(last.env[1])>>

C6_Witness ==
    /\ StartNotifyState
    /\ last.pre = "CONNECTING"
    /\ last.nm = "ok"
    /\ last.env[1].ip = ""
    /\ g_state = "CONNECTING"
    /\ trace = <<>>

TransitionPayload(state) ==
    IF state = "CONNECTED" THEN ExpectedConnected(last.env[1])
    ELSE "{\"state\":\"" \o state \o "\"}"

\* The entries after position i up to the next assignment of the state.
UntilNextSet(i) ==
    LET later == {j \in (i + 1)..Len(trace) : trace[j].k = "set"}
        stop == IF later = {} THEN Len(trace) + 1
                ELSE CHOOSE j \in later : \A x \in later : j <= x
    IN  (i + 1)..(stop - 1)

C8_OneEmissionPerTransition ==
    StateNotifying =>
        \A i \in 1..Len(trace) :
            trace[i].k = "set" =>
                /\ i < Len(trace)
                /\ trace[i + 1] = EvNotify(CHR_STATE, TransitionPayload(trace[i].v), TRUE)
                /\ Cardinality({j \in UntilNextSet(i) :
                                   IsEmission(trace[j]) /\ trace[j].v = trace[i + 1].v}) = 1

C8_Witness ==
    /\ StateNotifying
    /\ ConnectWrite
    /\ last.pre = "CONNECTING"
    /\ Cardinality({i \in 1..Len(trace) : trace[i].k = "set"}) = 2
    /\ Len(Emitted(trace)) = 2

\* ------------------------------------------------------------------------
\* C9: two IPv4-ready runs in a row, wlan0 reporting the same ssid and
\* address to both and State notifying, emit one notification each, the
\* two byte-identical CONNECTED payloads; the state is CONNECTED after each.
\* ------------------------------------------------------------------------
C9_RepeatIdentical ==
    (Ipv4Run /\ prev.valid /\ prev.nm = "ok" /\ SawAddress /\ StateNotifying) =>
        /\ Len(Emitted(prev.trace)) = 1
        /\ Len(Emitted(trace)) = 1
        /\ Emitted(trace)[1].v = Emitted(prev.trace)[1].v
        /\ SubSeq(Emitted(trace)[1].v, 1, 20) = "{\"state\":\"CONNECTED\""
        /\ prev.trace[1] = EvSet("CONNECTED")
        /\ g_state = "CONNECTED"

C9_Witness ==
    /\ Ipv4Run
    /\ prev.valid
    /\ prev.nm = "ok"
    /\ SawAddress
    /\ StateNotifying
    /\ last.pre = "CONNECTED"
    /\ Len(Emitted(trace)) = 1
    /\ Emitted(trace) = Emitted(prev.trace)

\* ------------------------------------------------------------------------
\* build_wifi_scan_payload on its own: the lists are drawn at the start and
\* one action builds the payload.
\* ------------------------------------------------------------------------
PayloadSsids ==
    {"HomeNet", "a\nb" \o NUL, Rep("A", 169), Rep("A", 170), Rep("\"", 84), Rep("\"", 85),
     Rep("B", 80)}

RECURSIVE SsidLists(_)
SsidLists(n) ==
    IF n = 0 THEN {<<>>}
    ELSE SsidLists(n - 1) \cup
         {Append(l, x) : l \in {y \in SsidLists(n - 1) : Len(y) = n - 1}, x \in PayloadSsids}

EvPayload(value) == [k |-> "payload", path |-> "", v |-> value, sent |-> FALSE]

InitPayload ==
    /\ pc = "build_wifi_scan_payload"
    /\ monitor = "none"
    /\ idle = 0
    /\ g_state = "SCANNING"
    /\ g_chars = Paths
    /\ \E b \in BOOLEAN : notifying = [p \in Paths |-> b /\ p = CHR_STATE]
    /\ value_ay = [p \in Paths |-> IF p = CHR_DEVINFO THEN <<on_read_device_info>>
                                    ELSE IF p = CHR_STATE THEN <<make_state_payload("UNCONFIGURED")>>
                                    ELSE <<>>]
    /\ g_scan_busy = FALSE
    /\ wlan = [ap |-> <<>>, ip |-> ""]
    /\ trace = <<>>
    /\ \E ssids \in SsidLists(MaxSsids) : last = [NoRun EXCEPT !.ssids = ssids]
    /\ prev = NoPrev
    /\ registration = "none"

BuildPayload ==
    /\ pc = "build_wifi_scan_payload"
    /\ pc' = "built"
    /\ trace' = <<EvPayload(make_ay_from_string(build_wifi_scan_payload(last.ssids)))>>
    /\ UNCHANGED <<registration, monitor, idle, g_state, g_chars, notifying, value_ay,
                   g_scan_busy, wlan,
                   last, prev>>

\* The whole scan handler on the list scan_ssids() returned.
HandleScan ==
    /\ pc = "build_wifi_scan_payload"
    /\ pc' = "handled"
    /\ \E m \in {handle_wifi_scan_request(Data, last.ssids)} : Commit(m)
    /\ UNCHANGED <<registration, monitor, idle, wlan, last, prev>>

NextPayload == BuildPayload \/ HandleScan

SpecPayload == InitPayload /\ [][NextPayload]_vars

\* ------------------------------------------------------------------------
\* C10: for every list of SSIDs the scan-result payload is at most 200
\* bytes long, the closing "]}" included.
\* ------------------------------------------------------------------------
C10_PayloadCap ==
    pc = "built" =>
        /\ Len(trace[1].v) <= 200
        /\ SubSeq(trace[1].v, Len(trace[1].v) - 1, Len(trace[1].v)) = "]}"

C10_Witness ==
    /\ pc = "built"
    /\ Len(last.ssids) = 3
    /\ last.ssids[1] = Rep("A", 169)
    /\ Len(trace[1].v) = 200

\* ------------------------------------------------------------------------
\* C11: the scan-result payload holds whole escaped entries, a prefix of
\* the list the scan utility returned, cut before the first entry that
\* would take the payload over 200 bytes; a scan sends exactly one
\* scan-result notification and the omitted entries are in no notification.
\* ------------------------------------------------------------------------
ScanPrefix == "{\"op\":\"wifi_scan\",\"ssids\":["

IsScanResult(e) ==
    /\ IsNotify(e)
    /\ Len(e.v) >= Len(ScanPrefix)
    /\ SubSeq(e.v, 1, Len(ScanPrefix)) = ScanPrefix

\* The first k entries, each escaped and quoted, separated by commas.
RECURSIVE Joined(_, _)
Joined(ssids, k) ==
    IF k = 0 THEN ""
    ELSE Joined(ssids, k - 1) \o (IF k = 1 THEN "" ELSE ",")
         \o "\"" \o json_escape(ssids[k]) \o "\""

Fits(ssids, k) == Len(ScanPrefix) + Len(Joined(ssids, k)) + 2 <= 200

C11_WholePrefix ==
    pc = "handled" =>
        /\ Len(SelectSeq(trace, IsScanResult)) = 1
        /\ \E k \in 0..Len(last.ssids) :
              /\ \A j \in 1..k : Fits(last.ssids, j)
              /\ k < Len(last.ssids) => ~Fits(last.ssids, k + 1)
              /\ Values(Notified(trace)) =
                    <<"{\"state\":\"SCANNING\"}",
                      ScanPrefix \o Joined(last.ssids, k) \o "]}",
                      "{\"state\":\"SCAN_COMPLETE\"}">>
        /\ \A i \in 1..Len(trace) : IsNotify(trace[i]) => trace[i].sent = StateNotifying

C11_Witness ==
    /\ pc = "handled"
    /\ StateNotifying
    /\ last.ssids = <<"HomeNet", Rep("A", 169), Rep("B", 80)>>
    /\ Values(Emitted(trace)) =
          <<"{\"state\":\"SCANNING\"}",
            "{\"op\":\"wifi_scan\",\"ssids\":[\"HomeNet\"]}",
            "{\"state\":\"SCAN_COMPLETE\"}">>

\* ------------------------------------------------------------------------
\* The characteristic objects under any caller on the bus: StartNotify and
\* StopNotify on every characteristic, with IPv4-ready events as the source
\* of notifications.  It starts where main() has entered the main loop.
\* ------------------------------------------------------------------------
InitBus ==
    /\ pc = "loop"
    /\ monitor = "listening"
    /\ idle = 0
    /\ g_state = "UNCONFIGURED"
    /\ g_chars = Paths
    /\ notifying = [p \in Paths |-> FALSE]
    /\ value_ay = [p \in Paths |-> IF p = CHR_DEVINFO THEN <<on_read_device_info>>
                                    ELSE IF p = CHR_STATE THEN <<make_state_payload("UNCONFIGURED")>>
                                    ELSE <<>>]
    /\ g_scan_busy = FALSE
    /\ wlan \in WlanStates
    /\ trace = <<>>
    /\ last = NoRun
    /\ prev = NoPrev
    /\ registration = "none"

StartNotifyAny ==
    /\ pc = "loop"
    /\ StartNotifyOn(Paths)
    /\ UNCHANGED <<registration, pc, monitor, idle, wlan>>

StopNotifyAny ==
    /\ pc = "loop"
    /\ StopNotifyOn(Paths)
    /\ UNCHANGED <<registration, pc, monitor, idle, wlan>>

NextBus ==
    \/ StartNotifyAny
    \/ StopNotifyAny
    \/ ip_monitor_post
    \/ ipv4_ready_idle

SpecBus == InitBus /\ [][NextBus]_vars

\* ------------------------------------------------------------------------
\* C15: StartNotify sets and StopNotify clears the notifying flag of the
\* characteristic it is called on and of no other; it calls the notify
\* callback (State has the only one) with true or false and returns
\* success, on every characteristic and also when repeated; while State is
\* not notifying nothing is emitted on State.
\* ------------------------------------------------------------------------
C15_NotifyFlags ==
    [][
        /\ last'.op \in {"StartNotify", "StopNotify"} =>
              /\ notifying' = [notifying EXCEPT ![last'.path] = (last'.op = "StartNotify")]
              /\ last'.reply = "ok"
              /\ (last'.op = "StopNotify" \/ last'.path # CHR_STATE) =>
                    (trace' = <<>> /\ g_state' = g_state)
              /\ (last'.op = "StartNotify" /\ last'.path = CHR_STATE
                    /\ last'.nm = "ok" /\ wlan.ip # "") =>
                    (/\ g_state' = "CONNECTED"
                     /\ Values(Emitted(trace')) = <<ExpectedConnected(wlan)>>)
        /\ ~notifying'[CHR_STATE] => Emitted(trace') = <<>>
    ]_vars

C15_Witness ==
    /\ last.op = "StopNotify"
    /\ last.path = CHR_COMMAND
    /\ last.reply = "ok"
    /\ notifying[CHR_DEVINFO]
    /\ notifying[CHR_STATE]
    /\ ~notifying[CHR_COMMAND]
    /\ g_state = "CONNECTED"

\* ------------------------------------------------------------------------
\* C12: a Command write whose op (or legacy cmd) is wifi_connect and whose
\* ssid is missing or empty leaves the provisioning state unchanged, sends
\* no notification and calls neither the connect handler nor connect().
\* The ssid is the one the extractor of the parser yields.
\* ------------------------------------------------------------------------
NoSsidConnects ==
    {"{\"op\":\"wifi_connect\",\"psk\":\"secret\"}",
     "{\"op\":\"wifi_connect\",\"ssid\":\"\",\"psk\":\"secret\"}",
     "{\"cmd\":\"wifi.connect\",\"psk\":\"secret\"}"}

IgnoredCommands ==
    {"", "not json", "{\"op\":\"reboot\"}", "{\"cmd\":\"reboot\"}", "{\"ssid\":\"HomeNet\"}"}

LegacyPairs ==
    {<<"{\"cmd\":\"wifi.scan\"}", "{\"op\":\"wifi_scan\"}">>,
     <<"{\"cmd\":\"wifi.connect\",\"ssid\":\"HomeNet\",\"psk\":\"secret\"}",
       "{\"op\":\"wifi_connect\",\"ssid\":\"HomeNet\",\"psk\":\"secret\"}">>,
     <<"{\"cmd\":\"wifi.connect\",\"psk\":\"secret\"}", "{\"op\":\"wifi_connect\",\"psk\":\"secret\"}">>,
     <<"{\"op\":\"\",\"cmd\":\"wifi.scan\"}", "{\"op\":\"wifi_scan\"}">>,
     <<"{\"op\":\"wifi_scan\",\"cmd\":\"wifi.connect\",\"ssid\":\"HomeNet\"}", "{\"op\":\"wifi_scan\"}">>,
     <<"{\"cmd\":\"reboot\"}", "{\"op\":\"reboot\"}">>}

C16_SilentNotify ==
    [][
        (/\ g_chars' = g_chars
         /\ CHR_STATE \notin g_chars \/ ~notifying'[CHR_STATE]) =>
            /\ Emitted(trace') = <<>>
            /\ value_ay' = value_ay
    ]_vars

C16_Witness ==
    /\ CommandWrite("wifi_scan")
    /\ CHR_STATE \in g_chars
    /\ ~StateNotifying
    /\ Len(Notified(trace)) = 3
    /\ Emitted(trace) = <<>>
    /\ g_state = "SCAN_COMPLETE"
    /\ value_ay[CHR_STATE] = <<"{\"state\":\"UNCONFIGURED\"}">>

\* ------------------------------------------------------------------------
\* C17: while State is notifying, the emissions on the State path are the
\* values passed to notify_characteristic_value, one per call and in the
\* order of the calls, and after each call the cached value is the value
\* just emitted.
\* ------------------------------------------------------------------------
NotifyValues == {"", "{\"state\":\"SCANNING\"}", "{\"op\":\"wifi_scan\",\"ssids\":[]}"}

C17_EmissionOrder ==
    (CHR_STATE \in g_chars /\ StateNotifying) =>
        /\ Emitted(trace) = Notified(trace)
        /\ \A i \in 1..Len(trace) : IsNotify(trace[i]) => trace[i].path = CHR_STATE
        /\ Emitted(trace) # <<>> => value_ay[CHR_STATE] = <<Emitted(trace)[Len(Emitted(trace))].v>>
        /\ \A v1, v2 \in NotifyValues :
              LET m1 == notify_characteristic_value(Data, CHR_STATE, v1)
                  m2 == notify_characteristic_value(m1, CHR_STATE, v2)
              IN  /\ Values(Emitted(m1.trace)) = <<v1>>
                  /\ m1.value_ay[CHR_STATE] = <<v1>>
                  /\ Values(Emitted(m2.trace)) = <<v1, v2>>
                  /\ m2.value_ay[CHR_STATE] = <<v2>>

C17_Witness ==
    /\ CommandWrite("wifi_scan")
    /\ StateNotifying
    /\ last.ssids = <<"HomeNet", "Cafe">>
    /\ Values(Emitted(trace)) =
          <<"{\"state\":\"SCANNING\"}",
            "{\"op\":\"wifi_scan\",\"ssids\":[\"HomeNet\",\"Cafe\"]}",
            "{\"state\":\"SCAN_COMPLETE\"}">>
    /\ value_ay[CHR_STATE] = <<"{\"state\":\"SCAN_COMPLETE\"}">>

\* ------------------------------------------------------------------------
\* wifi/scan.cpp step by step: scan_ssids() entered by two callers at any
\* time, each NetworkManager call a step of its own.  Here pc maps a caller
\* to its place in scan_ssids() and last maps it to its guard, the calls it
\* has made on the Wi-Fi layer and the list it returned.
\* ------------------------------------------------------------------------
Callers == {"first", "second"}

\* The places between the construction and the destruction of a guard that
\* has acquired the flag.
Holding == {"nm_client_new", "nm_client_get_devices", "nm_device_wifi_request_scan",
            "nm_device_wifi_get_access_points"}

NotScanning == [acquired |-> FALSE, calls |-> <<>>, result |-> <<>>]

\* ~ScanBusyGuard that stores false whether or not it acquired the flag.
ScanBusyGuard_release_always(acquired, busy) == FALSE

\* ~ScanBusyGuard: the value of g_scan_busy once the guard is destroyed.
ScanBusyGuard_release(acquired, busy) == IF acquired THEN FALSE ELSE busy

\* scan_ssids() returns result at caller c.
ScanReturn(c, called, result) ==
    /\ pc' = [pc EXCEPT ![c] = "returned"]
    /\ last' = [last EXCEPT ![c].calls = @ \o called, ![c].result = result]
    /\ g_scan_busy' = ScanBusyGuard_release(last[c].acquired, g_scan_busy)

ScanGoes(c, called, place) ==
    /\ pc' = [pc EXCEPT ![c] = place]
    /\ last' = [last EXCEPT ![c].calls = @ \o called]
    /\ UNCHANGED g_scan_busy

ScanRest ==
    <<monitor, idle, g_state, g_chars, notifying, value_ay, wlan, trace, prev,
      registration>>

InitScan ==
    /\ pc = [c \in Callers |-> "idle"]
    /\ last = [c \in Callers |-> NotScanning]
    /\ g_scan_busy = FALSE
    /\ monitor = "none"
    /\ idle = 0
    /\ g_state = "UNCONFIGURED"
    /\ g_chars = {}
    /\ notifying = [p \in Paths |-> FALSE]
    /\ value_ay = [p \in Paths |-> <<>>]
    /\ wlan = [ap |-> <<>>, ip |-> ""]
    /\ trace = <<>>
    /\ prev = NoPrev
    /\ registration = "none"

\* ScanBusyGuard guard: the compare-and-swap, and the return when it fails.
ScanBusyGuard ==
    /\ \E c \in Callers :
          /\ pc[c] = "idle"
          /\ IF ~g_scan_busy
             THEN /\ g_scan_busy' = TRUE
                  /\ pc' = [pc EXCEPT ![c] = "nm_client_new"]
                  /\ last' = [last EXCEPT ![c].acquired = TRUE]
             ELSE ScanReturn(c, <<>>, <<>>)
    /\ UNCHANGED ScanRest

scan_nm_client_new ==
    /\ \E c \in Callers, client \in BOOLEAN :
          /\ pc[c] = "nm_client_new"
          /\ IF client THEN ScanGoes(c, <<"nm_client_new">>, "nm_client_get_devices")
             ELSE ScanReturn(c, <<"nm_client_new">>, <<>>)
    /\ UNCHANGED ScanRest

scan_nm_client_get_devices ==
    /\ \E c \in Callers, wifi \in BOOLEAN :
          /\ pc[c] = "nm_client_get_devices"
          /\ IF wifi THEN ScanGoes(c, <<"nm_client_get_devices">>, "nm_device_wifi_request_scan")
             ELSE ScanReturn(c, <<"nm_client_get_devices">>, <<>>)
    /\ UNCHANGED ScanRest

\* The scan request, whether it fails or not, and the sleep after it.
scan_nm_device_wifi_request_scan ==
    /\ \E c \in Callers :
          /\ pc[c] = "nm_device_wifi_request_scan"
          /\ ScanGoes(c, <<"nm_device_wifi_request_scan">>, "nm_device_wifi_get_access_points")
    /\ UNCHANGED ScanRest

scan_nm_device_wifi_get_access_points ==
    /\ \E c \in Callers, result \in ScanReturns :
          /\ pc[c] = "nm_device_wifi_get_access_points"
          /\ ScanReturn(c, <<"nm_device_wifi_get_access_points">>, result)
    /\ UNCHANGED ScanRest

\* The caller is ready to call scan_ssids() again.
scan_again ==
    /\ \E c \in Callers :
          /\ pc[c] = "returned"
          /\ pc' = [pc EXCEPT ![c] = "idle"]
          /\ last' = [last EXCEPT ![c] = NotScanning]
    /\ UNCHANGED g_scan_busy
    /\ UNCHANGED ScanRest

NextScan ==
    \/ ScanBusyGuard
    \/ scan_nm_client_new
    \/ scan_nm_client_get_devices
    \/ scan_nm_device_wifi_request_scan
    \/ scan_nm_device_wifi_get_access_points
    \/ scan_again

SpecScan == InitScan /\ [][NextScan]_vars

\* ------------------------------------------------------------------------
\* C18: the scan-busy flag is taken by compare-and-swap on entry and is
\* false again once the scan has returned, on every exit path; at most one
\* scan holds it; an invocation that finds it set returns an empty list,
\* makes no call on the Wi-Fi layer and does not clear the flag.
\* ------------------------------------------------------------------------
C18_BusyGuard ==
    /\ Cardinality({c \in Callers : pc[c] \in Holding}) <= 1
    /\ g_scan_busy = (\E c \in Callers : pc[c] \in Holding)
    /\ \A c \in Callers :
          /\ pc[c] \in Holding => last[c].acquired
          /\ (pc[c] = "returned" /\ ~last[c].acquired) =>
                (last[c].result = <<>> /\ last[c].calls = <<>>)

C18_Witness ==
    /\ pc["first"] = "returned"
    /\ ~last["first"].acquired
    /\ last["first"].result = <<>>
    /\ pc["second"] = "nm_device_wifi_get_access_points"
    /\ g_scan_busy

\* ------------------------------------------------------------------------
\* C19: ReadValue on DeviceInfo returns exactly the bytes of the static
\* JSON object, in every reachable state.
\* ------------------------------------------------------------------------
C19_DeviceInfoRead ==
    /\ (last.op = "ReadValue" /\ last.path = CHR_DEVINFO) =>
          last.reply =
             "{\"Company\":\"PiDevelop.com\",\"Developer\":\"james@pidevelop.com\",\"project_name\":\"Provision BLE\"}"
    /\ CHR_DEVINFO \in g_chars =>
          /\ Len(ReadCallback(Data, CHR_DEVINFO)[1]) = 92
          /\ ReadCallback(Data, CHR_DEVINFO) =
                <<"{\"Company\":\"PiDevelop.com\",\"Developer\":\"james@pidevelop.com\",\"project_name\":\"Provision BLE\"}">>

C19_Witness ==
    /\ last.op = "ReadValue"
    /\ last.path = CHR_DEVINFO
    /\ Len(last.reply) = 92
    /\ g_state = "CONNECTED"
    /\ StateNotifying
    /\ value_ay[CHR_STATE] # <<"{\"state\":\"UNCONFIGURED\"}">>

\* ------------------------------------------------------------------------
\* C20 as stated: ReadValue on a characteristic without a read callback
\* (Command) and WriteValue on one without a write callback (DeviceInfo,
\* State) fail with the NotSupported error and change nothing.
\* ------------------------------------------------------------------------
C20_NotSupported ==
    (\/ last.op = "ReadValue" /\ last.path = CHR_COMMAND
     \/ last.op = "WriteValue" /\ last.path \in {CHR_DEVINFO, CHR_STATE}) =>
        /\ last.reply = "org.bluez.Error.NotSupported"
        /\ g_state = last.pre
        /\ trace = <<>>

\* ------------------------------------------------------------------------
\* C21: WriteValue on Command returns the success reply for every payload:
\* empty, without op or with an unknown op, a wifi_connect without ssid, a
\* scan that returns nothing and a rejected connect; and the main loop goes
\* on dispatching afterwards.
\* ------------------------------------------------------------------------
C21_WriteSucceeds ==
    (last.op = "WriteValue" /\ last.path = CHR_COMMAND) =>
        /\ last.reply = "ok"
        /\ pc = "loop"
        /\ ENABLED ReadValue
        /\ ENABLED WriteValue

\* A rejected connect, reported and reverted, answered with success.
C21_Witness ==
    /\ ConnectWrite
    /\ last.reply = "ok"
    /\ \E i \in 1..Len(trace) : trace[i] = EvSubmit("FAILED")
    /\ g_state = "UNCONFIGURED"
    /\ pc = "loop"

\* ------------------------------------------------------------------------
\* Start-up and registration: main() from its first export to the main
\* loop, the two registration calls completing inside the loop, and the
\* callbacks the loop dispatches meanwhile (without Command writes and
\* without changes of wlan0).
\* ------------------------------------------------------------------------
NextReg ==
    \/ start_ip_monitor
    \/ export_device_info
    \/ export_state
    \/ export_command
    \/ g_main_loop_run
    \/ StartupFails
    \/ start_async_registration
    \/ on_application_registered
    \/ on_advertisement_registered
    \/ ip_monitor_skip
    \/ ip_monitor_post
    \/ ip_monitor_direct
    \/ ipv4_ready_idle
    \/ ReadValue
    \/ StartNotify
    \/ StopNotify

SpecReg == Init /\ [][NextReg]_vars

\* ------------------------------------------------------------------------
\* C22 as stated: a registration call that completes with an error ends the
\* process with exit code 1; the main loop does not go on unregistered.
\* ------------------------------------------------------------------------
C22_RegistrationFatal ==
    registration \in {"application_failed", "advertisement_failed"} => pc = "exit"

\* ------------------------------------------------------------------------
\* scan_ssids() from the access point array on: the map of strongest
\* strengths and the sort, on every array of up to MaxSortAps access points.
\* last holds the array and the list returned.
\* ------------------------------------------------------------------------
SortStrengths == {40, 60, 80}
SortAccessPoints == [ssid : ScanSsids \cup {""}, strength : SortStrengths]

RECURSIVE SortApLists(_)
SortApLists(n) ==
    IF n = 0 THEN {<<>>}
    ELSE LET shorter == SortApLists(n - 1)
         IN  shorter \cup {Append(l, a) : l \in {x \in shorter : Len(x) = n - 1},
                                          a \in SortAccessPoints}

InitSort ==
    /\ pc = "nm_device_wifi_get_access_points"
    /\ \E aps \in SortApLists(MaxSortAps) : last = [aps |-> aps, result |-> <<>>]
    /\ g_scan_busy = TRUE
    /\ monitor = "none"
    /\ idle = 0
    /\ g_state = "SCANNING"
    /\ g_chars = {}
    /\ notifying = [p \in Paths |-> FALSE]
    /\ value_ay = [p \in Paths |-> <<>>]
    /\ wlan = [ap |-> <<>>, ip |-> ""]
    /\ trace = <<>>
    /\ prev = NoPrev
    /\ registration = "none"

\* The rest of scan_ssids(): best_strength, sorted, result, and the guard's
\* destructor.
scan_map_and_sort ==
    /\ pc = "nm_device_wifi_get_access_points"
    /\ pc' = "returned"
    /\ \E result \in SortedOrders(best_strength(last.aps)) :
          last' = [last EXCEPT !.result = result]
    /\ g_scan_busy' = ScanBusyGuard_release(TRUE, g_scan_busy)
    /\ UNCHANGED ScanRest

NextSort == scan_map_and_sort

SpecSort == InitSort /\ [][NextSort]_vars

\* The strongest strength among the access points of one SSID.
Strongest(aps, ssid) ==
    LET seen == {aps[k].strength : k \in {x \in 1..Len(aps) : aps[x].ssid = ssid}}
    IN  CHOOSE s \in seen : \A t \in seen : t <= s

\* ------------------------------------------------------------------------
\* C23: for every access point array the scan returns each non-empty SSID
\* exactly once, never the empty SSID, ordered by descending strongest
\* strength of each SSID; (HomeNet,80),(HomeNet,60),(Cafe,40) gives
\* [HomeNet, Cafe].
\* ------------------------------------------------------------------------
C23_UniqueSorted ==
    pc = "returned" =>
        LET aps == last.aps
            r == last.result
        IN  /\ \A i \in 1..Len(r) : r[i] # ""
            /\ \A i, j \in 1..Len(r) : i # j => r[i] # r[j]
            /\ {r[i] : i \in 1..Len(r)} = {aps[k].ssid : k \in 1..Len(aps)} \ {""}
            /\ \A i, j \in 1..Len(r) :
                  i < j => Strongest(aps, r[i]) >= Strongest(aps, r[j])
            /\ aps = <<[ssid |-> "HomeNet", strength |-> 80],
                       [ssid |-> "HomeNet", strength |-> 60],
                       [ssid |-> "Cafe", strength |-> 40]>>
                  => r = <<"HomeNet", "Cafe">>

\* A weaker HomeNet listed before the stronger one, after a Cafe in between.
C23_Witness ==
    /\ pc = "returned"
    /\ last.aps = <<[ssid |-> "Cafe", strength |-> 60],
                    [ssid |-> "HomeNet", strength |-> 40],
                    [ssid |-> "HomeNet", strength |-> 80]>>
    /\ last.result = <<"HomeNet", "Cafe">>
    /\ ~g_scan_busy

\* ------------------------------------------------------------------------
\* C24: scan_ssids() returns the empty list when a scan is busy and when
\* the client, the Wi-Fi device or the access point array is missing; on
\* an empty list the wifi_scan handler still reports SCANNING, the empty
\* SSID list and SCAN_COMPLETE, in this order, and ends in SCAN_COMPLETE.
\* ------------------------------------------------------------------------
C24_EmptyScanCompletes ==
    /\ \A env \in ScanEnvs :
          /\ scan_ssids(TRUE, env) = {<<>>}
          /\ (~env.client \/ ~env.wifi \/ env.apsNull) => scan_ssids(FALSE, env) = {<<>>}
    /\ (CommandWrite("wifi_scan") /\ last.ssids = <<>>) =>
          /\ g_state = "SCAN_COMPLETE"
          /\ Values(Notified(trace)) =
                <<"{\"state\":\"SCANNING\"}",
                  "{\"op\":\"wifi_scan\",\"ssids\":[]}",
                  "{\"state\":\"SCAN_COMPLETE\"}">>
          /\ StateNotifying => Emitted(trace) = Notified(trace)
          /\ StateNotifying => value_ay[CHR_STATE] = <<"{\"state\":\"SCAN_COMPLETE\"}">>

C24_Witness ==
    /\ CommandWrite("wifi_scan")
    /\ last.ssids = <<>>
    /\ StateNotifying
    /\ Len(Emitted(trace)) = 3
    /\ Emitted(trace)[2].v = "{\"op\":\"wifi_scan\",\"ssids\":[]}"
    /\ g_state = "SCAN_COMPLETE"

\* ------------------------------------------------------------------------
\* C25: CONNECTING has no timeout and no failure path: a step that handles
\* neither a wifi_scan or wifi_connect write nor runs the IPv4-ready handler
\* (from the netlink event or from StartNotify on State) leaves CONNECTING
\* as it is; so do a change of wlan0, a DELADDR message, a ReadValue, a
\* StopNotify and a write the parser ignores.
\* ------------------------------------------------------------------------
RunsStateMachine ==
    \/ last'.op = "ipv4_ready"
    \/ last'.op = "StartNotify" /\ last'.path = CHR_STATE
    \/ /\ last'.op = "WriteValue"
       /\ last'.path = CHR_COMMAND
       /\ Parsed[last'.arg].op \in {"wifi_scan", "wifi_connect"}

C25_ConnectingStays ==
    [][(g_state = "CONNECTING" /\ (idle' > idle \/ ~RunsStateMachine)) =>
          /\ g_state' = "CONNECTING"
          /\ trace' # trace => Emitted(trace') = <<>>]_vars

\* CONNECTING after an accepted submission, wlan0 without an address, and a
\* StopNotify just handled.
C25_Witness ==
    /\ g_state = "CONNECTING"
    /\ last.op = "StopNotify"
    /\ last.pre = "CONNECTING"
    /\ wlan.ip = ""
    /\ idle = 0

\* ------------------------------------------------------------------------
\* C26: the monitor posts the IPv4-ready event only for an RTM_NEWADDR
\* message of family AF_INET on wlan0; any other message, RTM_DELADDR
\* included, posts nothing, changes no state and emits nothing, so
\* CONNECTED is kept after the address is removed.
\* ------------------------------------------------------------------------
C26_OnlyNewAddrPosts ==
    [][/\ \A t \in MsgTypes, f \in Families, n \in IfNames :
             PostsIpv4Ready([type |-> t, family |-> f, ifname |-> n])
                <=> (t = "RTM_NEWADDR" /\ f = "AF_INET" /\ n = "wlan0")
       /\ (idle' = idle /\ pc' = pc /\ last'.op = "netlink_skip") =>
             /\ <<last'.arg, last'.path>> # <<"RTM_NEWADDR AF_INET", "wlan0">>
             /\ UNCHANGED <<g_state, g_chars, notifying, value_ay, g_scan_busy>>
             /\ trace' = <<>>
       /\ idle' > idle =>
             UNCHANGED <<g_state, g_chars, notifying, value_ay, g_scan_busy, trace>>]_vars

\* wlan0 has lost its address after CONNECTED, and the monitor has read the
\* RTM_DELADDR message for it.
C26_Witness ==
    /\ last.op = "netlink_skip"
    /\ last.arg = "RTM_DELADDR AF_INET"
    /\ last.path = "wlan0"
    /\ last.pre = "CONNECTED"
    /\ g_state = "CONNECTED"
    /\ wlan.ip = ""
    /\ idle = 0

\* ------------------------------------------------------------------------
\* C27: every PropertiesChanged emission is made on the main-loop thread;
\* a run on the netlink thread emits no signal and replaces no cached value.
\* ------------------------------------------------------------------------
C27_EmitOnDispatcher ==
    [][/\ last'.thread = "netlink" => Emitted(trace') = <<>>
       /\ (pc' = pc /\ last'.thread = "netlink") => value_ay' = value_ay
       /\ (trace' # trace /\ Emitted(trace') # <<>>) =>
             /\ last'.thread = "main"
             /\ pc = "loop"]_vars

\* on_ipv4_ready run by the netlink thread itself, with State exported and
\* an address on wlan0: the state becomes CONNECTED and nothing is sent.
C27_Witness ==
    /\ Ipv4Run
    /\ last.thread = "netlink"
    /\ SawAddress
    /\ CHR_STATE \in g_chars
    /\ g_state = "CONNECTED"
    /\ Notified(trace) # <<>>
    /\ Emitted(trace) = <<>>
    /\ value_ay[CHR_STATE] = <<"{\"state\":\"UNCONFIGURED\"}">>

\* ------------------------------------------------------------------------
\* C28: the notifying flag gates no state transition: a wifi_scan write, a
\* wifi_connect write and an IPv4-ready event, run again from the state
\* they started in with the flag inverted, leave the same provisioning state after the
\* same assignments, the same submission result and the same notify calls; only what is sent and the cached value differ, and
\* nothing is sent without the flag.
\* ------------------------------------------------------------------------
FlipNotifying(m) == [m EXCEPT !.notifying[CHR_STATE] = ~@]

Unsent(t) == [i \in 1..Len(t) |-> [t[i] EXCEPT !.sent = FALSE]]

SameButEmissions(a, b) ==
    /\ b.g_state = a.g_state
    /\ b.g_chars = a.g_chars
    /\ b.g_scan_busy = a.g_scan_busy
    /\ Unsent(b.trace) = Unsent(a.trace)
    /\ \A m \in {a, b} : ~m.notifying[CHR_STATE] => Emitted(m.trace) = <<>>

C28_FlagGatesNothing ==
    LET before == FlipNotifying([Data EXCEPT !.g_state = last.pre])
        after == [Data EXCEPT !.trace = trace]
    IN  /\ (CommandWrite("wifi_scan") \/ CommandWrite("wifi_connect")) =>
              \E cenv \in ConnectEnvs :
                 \E b \in {on_write_command(before, last.arg, last.ssids, cenv)} :
                    SameButEmissions(after, b)
        /\ Ipv4Run =>
              \E b \in {on_ipv4_ready(before, last.nm, last.env[1])} :
                 SameButEmissions(after, b)

\* A wifi_scan handled after the subscription has ended (the cached value
\* is one that was sent earlier): SCAN_COMPLETE, and nothing sent.
C28_Witness ==
    /\ CommandWrite("wifi_scan")
    /\ ~StateNotifying
    /\ value_ay[CHR_STATE] # <<"{\"state\":\"UNCONFIGURED\"}">>
    /\ g_state = "SCAN_COMPLETE"
    /\ Len(Notified(trace)) = 3
    /\ Emitted(trace) = <<>>

\* ------------------------------------------------------------------------
\* C29: a read of the Value property of an exported characteristic returns
\* its cached value, or the empty array while there is none.  The cache is
\* the read callback's value taken at export until the first emission and
\* the bytes of the latest emission afterwards; Command, without a read
\* callback and never notified, reads as empty.
\* ------------------------------------------------------------------------
C29_ValueIsCache ==
    [][/\ (idle' = idle /\ last'.op = "Get") =>
             /\ value_ay' = value_ay
             /\ last'.reply = IF value_ay[last'.path] = <<>> THEN ""
                              ELSE value_ay[last'.path][1]
             /\ last'.path = CHR_COMMAND => last'.reply = ""
       /\ \A p \in Paths :
             /\ (p \notin g_chars /\ p \in g_chars') =>
                   value_ay'[p] = ReadCallback(Data, p)
             /\ (p \in g_chars /\ value_ay'[p] # value_ay[p]) =>
                   /\ trace' # trace
                   /\ Emitted(trace') # <<>>
                   /\ Emitted(trace')[Len(Emitted(trace'))].path = p
             /\ (trace' # trace /\ \E i \in 1..Len(trace') : IsEmission(trace'[i])
                                                              /\ trace'[i].path = p) =>
                   LET sent == SelectSeq(Emitted(trace'), LAMBDA e : e.path = p)
                   IN  value_ay'[p] = <<sent[Len(sent)].v>>]_vars

\* State read after its subscription has ended and a scan has run unseen:
\* the value is the CONNECTED report sent last, not the current state.
C29_Witness ==
    /\ last.op = "Get"
    /\ last.path = CHR_STATE
    /\ ~StateNotifying
    /\ g_state = "SCAN_COMPLETE"
    /\ wlan.ip # ""
    /\ last.reply = ExpectedConnected(wlan)

\* ------------------------------------------------------------------------
\* json_escape on every byte sequence of up to MaxBytes bytes over the
\* bytes that matter (the five escaped ones, 0x00, 0x01, 0x1f, 0x20, 'n',
\* 0x80, 0xff), used as ssid or as ip of the CONNECTED report.  last holds
\* the input and the output of json_escape.
\* ------------------------------------------------------------------------
EscapeBytes == {0, 1, 9, 10, 13, 31, 32, 34, 92, 110, 128, 255}

RECURSIVE ByteSeqs(_)
ByteSeqs(n) ==
    IF n = 0 THEN {<<>>}
    ELSE LET shorter == ByteSeqs(n - 1)
         IN  shorter \cup {Append(l, b) : l \in {x \in shorter : Len(x) = n - 1},
                                          b \in EscapeBytes}

InitEscape ==
    /\ pc = "json_escape"
    /\ \E in \in ByteSeqs(MaxBytes), field \in {"ssid", "ip"} :
          last = [field |-> field, in |-> in, out |-> <<>>]
    /\ monitor = "listening"
    /\ idle = 0
    /\ g_state = "CONNECTING"
    /\ g_chars = Paths
    /\ notifying = [p \in Paths |-> p = CHR_STATE]
    /\ value_ay = [p \in Paths |-> ReadCallback([g_state |-> "UNCONFIGURED"], p)]
    /\ g_scan_busy = FALSE
    /\ wlan = [ap |-> <<>>, ip |-> ""]
    /\ trace = <<>>
    /\ prev = NoPrev
    /\ registration = "none"

json_escape_call ==
    /\ pc = "json_escape"
    /\ pc' = "escaped"
    /\ last' = [last EXCEPT !.out = json_escape_codes(last.in)]
    /\ UNCHANGED <<registration, monitor, idle, g_state, g_chars, notifying, value_ay,
                   g_scan_busy, wlan, trace, prev>>

\* notify_state_connected with the bytes as ssid or as ip, for the byte
\* sequences the strings of this module can hold.
notify_state_connected_call ==
    /\ pc = "escaped"
    /\ Representable(last.in)
    /\ pc' = "notified"
    /\ Commit(IF last.field = "ssid"
              THEN notify_state_connected(Data, BytesToString(last.in), "192.168.1.20")
              ELSE notify_state_connected(Data, "HomeNet", BytesToString(last.in)))
    /\ UNCHANGED <<registration, monitor, idle, wlan, last, prev>>

NextEscape == json_escape_call \/ notify_state_connected_call

SpecEscape == InitEscape /\ [][NextEscape]_vars

\* out is a sequence of two-byte escapes (backslash, then one of \ " n r t)
\* and of single bytes that are neither backslash nor double quote.
RECURSIVE WellEscaped(_)
WellEscaped(out) ==
    IF out = <<>> THEN TRUE
    ELSE IF Head(out) = 92
         THEN /\ Len(out) >= 2
              /\ out[2] \in {92, 34, 110, 114, 116}
              /\ WellEscaped(Tail(Tail(out)))
         ELSE Head(out) # 34 /\ WellEscaped(Tail(out))

\* The bytes a JSON reader gets back from a well-escaped out.
RECURSIVE Unescaped(_)
Unescaped(out) ==
    IF out = <<>> THEN <<>>
    ELSE IF Head(out) = 92
         THEN <<CASE out[2] = 110 -> 10 [] out[2] = 114 -> 13 [] out[2] = 116 -> 9
                  [] OTHER -> out[2]>> \o Unescaped(Tail(Tail(out)))
         ELSE <<Head(out)>> \o Unescaped(Tail(out))

\* ------------------------------------------------------------------------
\* C30: json_escape is total on byte sequences; its output has no byte
\* below 0x20 (no NUL that would cut the notification short), no double
\* quote without a backslash before it, no backslash outside the escapes
\* \\ \" \n \r \t; control bytes other than newline, carriage return and
\* tab become '?', and every other byte is copied unchanged.
\* ------------------------------------------------------------------------
C30_EscapeTotal ==
    /\ pc \in {"escaped", "notified"} =>
          LET in == last.in
              out == last.out
          IN  /\ \A i \in 1..Len(out) : out[i] \in 32..255
              /\ WellEscaped(out)
              /\ Unescaped(out) =
                    [i \in 1..Len(in) |->
                        IF in[i] < 32 /\ in[i] \notin {9, 10, 13} THEN 63 ELSE in[i]]
              /\ Representable(in) => json_escape(BytesToString(in)) = BytesToString(out)
    /\ pc = "notified" =>
          /\ Len(Emitted(trace)) = 1
          /\ Emitted(trace)[1].v =
                IF last.field = "ssid"
                THEN "{\"state\":\"CONNECTED\",\"ssid\":\"" \o BytesToString(last.out)
                        \o "\",\"ip\":\"192.168.1.20\"}"
                ELSE "{\"state\":\"CONNECTED\",\"ssid\":\"HomeNet\",\"ip\":\""
                        \o BytesToString(last.out) \o "\"}"
          /\ value_ay[CHR_STATE] = <<Emitted(trace)[1].v>>

\* An ssid of a NUL, a double quote and a backslash, reported whole.
C30_Witness ==
    /\ pc = "notified"
    /\ last.field = "ssid"
    /\ last.in = <<0, 34, 92>>
    /\ last.out = <<63, 92, 34, 92, 92>>
    /\ Emitted(trace)[1].v =
          "{\"state\":\"CONNECTED\",\"ssid\":\"?\\\"\\\\\",\"ip\":\"192.168.1.20\"}"

\* ------------------------------------------------------------------------
\* json_get_string on flat JSON objects: up to MaxFields fields with
\* distinct keys, string values without double quote or backslash, among
\* them values that read like a key name.  last holds the fields, the
\* payload, the key asked for and what json_get_string returned.
\* ------------------------------------------------------------------------
JsonKeys == {"op", "cmd", "ssid", "psk"}
JsonValues == {"", "op", "ssid", "wifi_scan", "HomeNet"}
JsonFields == [key : JsonKeys, value : JsonValues]

RECURSIVE JsonObjects(_)
JsonObjects(n) ==
    IF n = 0 THEN {<<>>}
    ELSE LET shorter == JsonObjects(n - 1)
         IN  shorter \cup
             UNION {{Append(l, f) : f \in {x \in JsonFields :
                                              \A i \in 1..Len(l) : l[i].key # x.key}} :
                    l \in {x \in shorter : Len(x) = n - 1}}

\* The text of a flat object as the Web BLE client writes it.
RECURSIVE JsonText(_, _)
JsonText(fields, i) ==
    IF i > Len(fields) THEN "}"
    ELSE (IF i = 1 THEN "" ELSE ",") \o "\"" \o fields[i].key \o "\":\""
         \o fields[i].value \o "\"" \o JsonText(fields, i + 1)

InitJson ==
    /\ pc = "on_write_command"
    /\ \E fields \in JsonObjects(MaxFields) :
          last = [fields |-> fields, payload |-> "{" \o JsonText(fields, 1),
                  key |-> "", result |-> ""]
    /\ monitor = "listening"
    /\ idle = 0
    /\ g_state = "UNCONFIGURED"
    /\ g_chars = Paths
    /\ notifying = [p \in Paths |-> FALSE]
    /\ value_ay = [p \in Paths |-> ReadCallback([g_state |-> "UNCONFIGURED"], p)]
    /\ g_scan_busy = FALSE
    /\ wlan = [ap |-> <<>>, ip |-> ""]
    /\ trace = <<>>
    /\ prev = NoPrev
    /\ registration = "none"

json_get_string_call ==
    /\ pc = "on_write_command"
    /\ pc' = "extracted"
    /\ \E key \in JsonKeys :
          last' = [last EXCEPT !.key = key,
                               !.result = json_get_string(last.payload, key)]
    /\ UNCHANGED <<registration, monitor, idle, g_state, g_chars, notifying, value_ay,
                   g_scan_busy, wlan, trace, prev>>

NextJson == json_get_string_call

SpecJson == InitJson /\ [][NextJson]_vars

\* The value the object gives to key, the empty string when it has none.
ValueOf(fields, key) ==
    LET at == {i \in 1..Len(fields) : fields[i].key = key}
    IN  IF at = {} THEN "" ELSE fields[CHOOSE i \in at : TRUE].value

\* ------------------------------------------------------------------------
\* C31 as stated: on a flat JSON object whose keys and string values hold
\* no double quote and no backslash, json_get_string returns for a key the
\* value the object gives to that key, and the empty string when the object
\* has no such key, also when another field's value reads like a key name.
\* ------------------------------------------------------------------------
C31_ExtractsValue ==
    pc = "extracted" => last.result = ValueOf(last.fields, last.key)

\* ------------------------------------------------------------------------
\* C32: between two handlers the provisioning state is never SCANNING.  A
\* wifi_scan write sets SCANNING and replaces it by SCAN_COMPLETE within
\* the one run; no handler starts in state SCANNING, and no ReadValue on
\* State answers {"state":"SCANNING"}.
\* ------------------------------------------------------------------------
C32_ScanningInsideHandler ==
    /\ g_state # "SCANNING"
    /\ last.pre # "SCANNING"
    /\ (last.op = "ReadValue" /\ last.path = CHR_STATE) =>
          last.reply # "{\"state\":\"SCANNING\"}"
    /\ \A i \in 1..Len(trace) :
          trace[i] = EvSet("SCANNING") =>
             /\ CommandWrite("wifi_scan")
             /\ \E j \in (i + 1)..Len(trace) : trace[j] = EvSet("SCAN_COMPLETE")

\* A scan handler that has gone through SCANNING, followed by nothing yet.
C32_Witness ==
    /\ CommandWrite("wifi_scan")
    /\ last.pre = "CONNECTING"
    /\ \E i \in 1..Len(trace) : trace[i] = EvSet("SCANNING")
    /\ \E i \in 1..Len(trace) :
          trace[i] = EvNotify(CHR_STATE, "{\"state\":\"SCANNING\"}", TRUE)
    /\ g_state = "SCAN_COMPLETE"
    /\ idle > 0

\* ------------------------------------------------------------------------
\* C33: in every reachable state a ReadValue on State answers exactly
\* {"state":"<S>"} for the current provisioning state S, whatever the
\* notifying flag and the cached value are; it changes nothing, and in
\* state CONNECTED it carries neither ssid nor ip, unlike the notification
\* the cache holds.
\* ------------------------------------------------------------------------
C33_ReadStateExact ==
    /\ \A n \in BOOLEAN, v \in {<<>>, <<"">>, value_ay[CHR_STATE]} :
          on_read_state([Data EXCEPT !.notifying[CHR_STATE] = n,
                                     !.value_ay[CHR_STATE] = v])
             = "{\"state\":\"" \o g_state \o "\"}"
    /\ (last.op = "ReadValue" /\ last.path = CHR_STATE) =>
          /\ last.reply = "{\"state\":\"" \o g_state \o "\"}"
          /\ last.pre = g_state
          /\ trace = <<>>
    /\ pc = "start_ip_monitor" => on_read_state(Data) = "{\"state\":\"UNCONFIGURED\"}"

\* A read in state CONNECTED while the cache holds the full report.
C33_Witness ==
    /\ last.op = "ReadValue"
    /\ last.path = CHR_STATE
    /\ g_state = "CONNECTED"
    /\ last.reply = "{\"state\":\"CONNECTED\"}"
    /\ notifying[CHR_STATE]
    /\ value_ay[CHR_STATE] =
          <<"{\"state\":\"CONNECTED\",\"ssid\":\"HomeNet\",\"ip\":\"192.168.1.20\"}">>

\* ------------------------------------------------------------------------
\* C34: scan_ssids() is never entered while g_scan_busy is set.  The flag
\* is clear whenever the dispatcher picks its next callback, only a Command
\* write with op wifi_scan enters scan_ssids(), and it does so once per
\* run, so the "ignored (busy)" return is never taken.
\* ------------------------------------------------------------------------
C34_BusyUnreachable ==
    /\ ~g_scan_busy
    /\ \A i \in 1..Len(trace) :
          trace[i] = EvScan =>
             /\ CommandWrite("wifi_scan")
             /\ \A j \in 1..Len(trace) : trace[j] = EvScan => j = i

\* A scan write right after another one, both entering scan_ssids().
C34_Witness ==
    /\ CommandWrite("wifi_scan")
    /\ last.pre = "SCAN_COMPLETE"
    /\ last.ssids # <<>>
    /\ \E i \in 1..Len(trace) : trace[i] = EvScan
    /\ ~g_scan_busy

\* ------------------------------------------------------------------------
\* Two wifi_connect writes that differ in the psk only, handled from the
\* same state: the object's fields in any order, with or without an ssid.
\* The variables hold the first run; last holds the two payloads and what
\* the second run, with the other psk, leaves behind.
\* ------------------------------------------------------------------------
PskValues == {"secret", "hunter22", "op", "ssid"}

\* The orders in which a client may write the keys of the object.
KeyOrders ==
    {o \in UNION {[1..n -> {"op", "ssid", "psk"}] : n \in 2..3} :
        /\ \A i, j \in 1..Len(o) : o[i] = o[j] => i = j
        /\ \E i \in 1..Len(o) : o[i] = "op"
        /\ \E i \in 1..Len(o) : o[i] = "psk"}

ConnectObject(order, psk) ==
    [i \in 1..Len(order) |->
        [key |-> order[i],
         value |-> CASE order[i] = "op" -> "wifi_connect"
                     [] order[i] = "ssid" -> "HomeNet"
                     [] OTHER -> psk]]

InitPsk ==
    /\ pc = "loop"
    /\ \E order \in KeyOrders, p1 \in PskValues, p2 \in PskValues :
          last = [payload |-> "{" \o JsonText(ConnectObject(order, p1), 1),
                  other |-> "{" \o JsonText(ConnectObject(order, p2), 1),
                  psk |-> <<p1, p2>>, g_state |-> "", trace |-> <<>>]
    /\ monitor = "listening"
    /\ idle = 0
    /\ g_state \in States \ {"SCANNING"}
    /\ g_chars = Paths
    /\ notifying \in {[p \in Paths |-> p = CHR_STATE /\ n] : n \in BOOLEAN}
    /\ value_ay = [p \in Paths |-> ReadCallback([g_state |-> "UNCONFIGURED"], p)]
    /\ g_scan_busy = FALSE
    /\ wlan = [ap |-> <<>>, ip |-> ""]
    /\ trace = <<>>
    /\ prev = NoPrev
    /\ registration = "none"

\* The WriteValue on Command with the one payload, and with the other.
WriteBoth ==
    /\ pc = "loop"
    /\ pc' = "written"
    /\ \E cenv \in ConnectEnvs, ssids \in {<<>>} :
          /\ Commit(on_write_command(Data, last.payload, ssids, cenv))
          /\ \E b \in {on_write_command(Data, last.other, ssids, cenv)} :
                last' = [last EXCEPT !.g_state = b.g_state, !.trace = b.trace]
    /\ UNCHANGED <<registration, monitor, idle, wlan, prev>>

NextPsk == WriteBoth

SpecPsk == InitPsk /\ [][NextPsk]_vars

IsSet(e) == e.k = "set"

\* ------------------------------------------------------------------------
\* C35 as stated: two wifi_connect writes that differ only in their psk
\* (without double quote or backslash) take the device through the same
\* provisioning states and emit the same notifications, none of which
\* contains either psk.
\* ------------------------------------------------------------------------
C35_PskUnobservable ==
    pc = "written" =>
       /\ g_state = last.g_state
       /\ SelectSeq(trace, IsSet) = SelectSeq(last.trace, IsSet)
       /\ Emitted(trace) = Emitted(last.trace)
       /\ \A i \in 1..Len(Emitted(trace)), k \in 1..2 :
             Find(Emitted(trace)[i].v, last.psk[k], 1) = 0

\* ------------------------------------------------------------------------
\* on_method_call for a WriteValue on Command, step by step: the call is
\* dispatched, write_cb runs on_write_command, and the reply is sent.  The
\* netlink thread goes on posting meanwhile; the dispatcher takes its next
\* callback when on_method_call has returned.  last.reply is "write_cb" and
\* "return_value" while the call is at these two steps; trace ends with
\* the reply once it is sent.
\* ------------------------------------------------------------------------
EvReply(reply) == [k |-> "reply", path |-> CHR_COMMAND, v |-> reply, sent |-> TRUE]

InMethodCall == last.reply \in {"write_cb", "return_value"}

InitCall ==
    /\ pc = "loop"
    /\ monitor = "listening"
    /\ idle = 0
    /\ g_state \in States \ {"SCANNING"}
    /\ g_chars = Paths
    /\ notifying \in {[p \in Paths |-> p = CHR_STATE /\ n] : n \in BOOLEAN}
    /\ value_ay = [p \in Paths |-> ReadCallback([g_state |-> "UNCONFIGURED"], p)]
    /\ g_scan_busy = FALSE
    /\ wlan \in {[ap |-> <<>>, ip |-> ""], [ap |-> <<"HomeNet">>, ip |-> "192.168.1.20"]}
    /\ trace = <<>>
    /\ last = NoRun
    /\ prev = NoPrev
    /\ registration = "none"

\* The dispatcher enters on_method_call with a WriteValue on Command.
write_dispatched ==
    /\ pc = "loop"
    /\ ~InMethodCall
    /\ \E value \in Commands :
          \E ssids \in (IF Parsed[value].op = "wifi_scan" THEN ScanReturns ELSE {<<>>}) :
             last' = Run("WriteValue", CHR_COMMAND, "main", "", <<>>, value, ssids, "write_cb")
    /\ trace' = <<>>
    /\ prev' = NoPrev
    /\ UNCHANGED <<registration, pc, monitor, idle, g_state, g_chars, notifying, value_ay,
                   g_scan_busy, wlan>>

\* ctx->write_cb(value_ay).
write_cb ==
    /\ last.reply = "write_cb"
    /\ \E cenv \in ConnectEnvs :
          Commit(on_write_command(Data, last.arg, last.ssids, cenv))
    /\ last' = [last EXCEPT !.reply = "return_value"]
    /\ UNCHANGED <<registration, pc, monitor, idle, wlan, prev>>

\* g_dbus_method_invocation_return_value(invocation, nullptr).
write_return ==
    /\ last.reply = "return_value"
    /\ trace' = Append(trace, EvReply(WriteValueReply(last.path, last.arg)))
    /\ last' = [last EXCEPT !.reply = WriteValueReply(last.path, last.arg)]
    /\ UNCHANGED <<registration, pc, monitor, idle, g_state, g_chars, notifying, value_ay,
                   g_scan_busy, wlan, prev>>

\* The idle source of notify_ipv4_ready, taken while the dispatcher is in
\* on_method_call.
dispatch_ipv4_ready_inside_call ==
    /\ ipv4_ready_idle

\* The idle source of notify_ipv4_ready, taken between two callbacks.
dispatch_ipv4_ready ==
    /\ ~InMethodCall
    /\ ipv4_ready_idle

dispatch_ReadValue ==
    /\ ~InMethodCall
    /\ ReadValue

NextCall ==
    \/ write_dispatched
    \/ write_cb
    \/ write_return
    \/ ip_monitor_post
    \/ dispatch_ipv4_ready
    \/ dispatch_ReadValue

SpecCall == InitCall /\ [][NextCall]_vars

\* ------------------------------------------------------------------------
\* C36: the reply to a Command WriteValue is sent after write_cb has
\* returned.  Every State emission of the handler (three for wifi_scan, the
\* CONNECTING one and, when the request is rejected, the UNCONFIGURED one
\* for wifi_connect) precedes the reply in program order, and from the
\* dispatch of the call to its reply no other callback runs: the only
\* other steps are the netlink thread attaching idle sources.
\* ------------------------------------------------------------------------
C36_ReplyAfterHandler ==
    [][/\ (last.reply = "return_value" /\ last'.reply # "return_value") =>
             /\ last'.reply = "ok"
             /\ trace' = Append(trace, EvReply("ok"))
             /\ Emitted(trace') = Emitted(trace)
             /\ g_state' = g_state
             /\ notifying[CHR_STATE] =>
                   Values(Emitted(trace)) =
                      IF Parsed[last.arg].op = "wifi_scan"
                      THEN <<"{\"state\":\"SCANNING\"}", scan_value(last.ssids),
                             "{\"state\":\"SCAN_COMPLETE\"}">>
                      ELSE IF Parsed[last.arg].op = "wifi_connect" /\ Parsed[last.arg].ssid # ""
                      THEN IF g_state = "CONNECTING"
                           THEN <<"{\"state\":\"CONNECTING\"}">>
                           ELSE <<"{\"state\":\"CONNECTING\"}", "{\"state\":\"UNCONFIGURED\"}">>
                      ELSE <<>>
       /\ InMethodCall =>
             /\ last'.op = "WriteValue"
             /\ last'.arg = last.arg
             /\ idle' >= idle
             /\ \A i \in 1..Len(trace') : trace'[i].k = "reply" => i = Len(trace')
             /\ last.reply = "write_cb" => trace = <<>>
             /\ (idle' > idle \/ last'.reply = "ok") => g_state' = g_state /\ value_ay' = value_ay
      ]_vars

\* A scan write replied to with its three emissions sent and an event of
\* the netlink thread still waiting.
C36_Witness ==
    /\ last.op = "WriteValue"
    /\ Parsed[last.arg].op = "wifi_scan"
    /\ last.reply = "ok"
    /\ Len(trace) = 7
    /\ trace[7] = EvReply("ok")
    /\ Len(Emitted(trace)) = 3
    /\ idle = 1

\* ------------------------------------------------------------------------
\* C37: the provisioning state is set to CONNECTED only by a run of
\* on_ipv4_ready (posted by the netlink thread or called by StartNotify on
\* State) to which wlan0 was a Wi-Fi device reporting a non-empty first
\* IPv4 address.  A run that finds no client, no such device or no address
\* leaves the state and the cached values as they were and emits nothing.
\* ------------------------------------------------------------------------
C37_ConnectedOnlyWithAddress ==
    [][LET handler == \/ last'.op = "ipv4_ready"
                      \/ last'.op = "StartNotify" /\ last'.path = CHR_STATE
           address == last'.nm = "ok" /\ last'.env # <<>> /\ last'.env[1].ip # ""
       IN  /\ (\E i \in 1..Len(trace') : trace'[i] = EvSet("CONNECTED")) =>
                 handler /\ address
           /\ (g_state' = "CONNECTED" /\ g_state # "CONNECTED") =>
                 /\ handler /\ address
                 /\ \E i \in 1..Len(trace') : trace'[i] = EvSet("CONNECTED")
           /\ (pc' = pc /\ idle' <= idle /\ handler /\ ~address) =>
                 /\ g_state' = g_state
                 /\ value_ay' = value_ay
                 /\ trace' = <<>>
      ]_vars

\* A run posted by the netlink thread that found no address, in CONNECTING.
C37_Witness ==
    /\ Ipv4Run
    /\ last.thread = "main"
    /\ last.nm = "ok"
    /\ last.env[1].ip = ""
    /\ g_state = "CONNECTING"
    /\ notifying[CHR_STATE]
    /\ trace = <<>>

\* ------------------------------------------------------------------------
\* The main loop and the netlink thread, with the events told apart: the
\* n-th NEWADDR for IPv4 on wlan0 attaches idle source n, the loop runs the
\* sources in the order they were attached, and a wifi_scan handler is
\* split at its blocking call of scan_ssids().  last.queue holds the
\* sources attached and not yet run, last.log what happened in order.
\* wlan0 has no address yet in these runs; what a run does with an address
\* is the matter of Spec.
\* ------------------------------------------------------------------------
EvPost(n) == [e |-> "post", id |-> n]
EvRun(n) == [e |-> "run", id |-> n]
EvScanEnter == [e |-> "scan_enter", id |-> 0]
EvScanReturn == [e |-> "scan_return", id |-> 0]

InitQueue ==
    /\ pc = "loop"
    /\ monitor = "listening"
    /\ idle = 0
    /\ g_state = "UNCONFIGURED"
    /\ g_chars = Paths
    /\ notifying = [p \in Paths |-> p = CHR_STATE]
    /\ value_ay = [p \in Paths |-> ReadCallback([g_state |-> "UNCONFIGURED"], p)]
    /\ g_scan_busy = FALSE
    /\ wlan \in {[ap |-> <<>>, ip |-> ""], [ap |-> <<"HomeNet">>, ip |-> ""]}
    /\ trace = <<>>
    /\ last = [posted |-> 0, queue |-> <<>>, scans |-> 0, log |-> <<>>]
    /\ prev = NoPrev
    /\ registration = "none"

\* ip_monitor_thread reads a NEWADDR for IPv4 on wlan0: notify_ipv4_ready
\* attaches an idle source, the main thread owning the context.
ip_monitor_newaddr ==
    /\ monitor = "listening"
    /\ MainOwnsContext
    /\ last.posted < MaxPosts
    /\ PostsIpv4Ready([type |-> "RTM_NEWADDR", family |-> "AF_INET", ifname |-> "wlan0"])
    /\ idle' = idle + 1
    /\ last' = [last EXCEPT !.posted = @ + 1,
                            !.queue = Append(@, last.posted + 1),
                            !.log = Append(@, EvPost(last.posted + 1))]
    /\ UNCHANGED <<registration, pc, monitor, g_state, g_chars, notifying, value_ay,
                   g_scan_busy, wlan, trace, prev>>

\* The loop runs an idle source while the dispatcher is inside the scan
\* handler.
on_ipv4_ready_dispatched_any_time ==
    /\ pc = "loop"
    /\ last.queue # <<>>
    /\ idle' = idle - 1
    /\ \E nm \in NmStates : \E m \in {on_ipv4_ready(Data, nm, wlan)} : Commit(m)
    /\ last' = [last EXCEPT !.queue = Tail(@),
                            !.log = Append(@, EvRun(Head(last.queue)))]
    /\ UNCHANGED <<registration, pc, monitor, wlan, prev>>

\* The loop runs the idle source attached first, between two callbacks.
on_ipv4_ready_dispatched ==
    /\ pc = "loop"
    /\ ~g_scan_busy
    /\ last.queue # <<>>
    /\ idle' = idle - 1
    /\ \E nm \in NmStates : \E m \in {on_ipv4_ready(Data, nm, wlan)} : Commit(m)
    /\ last' = [last EXCEPT !.queue = Tail(@),
                            !.log = Append(@, EvRun(Head(last.queue)))]
    /\ UNCHANGED <<registration, pc, monitor, wlan, prev>>

\* handle_wifi_scan_request up to its call of scan_ssids(), which blocks.
scan_handler_enters ==
    /\ pc = "loop"
    /\ ~g_scan_busy
    /\ last.scans < MaxScans
    /\ Commit([notify_state(SetState(Data, "SCANNING")) EXCEPT !.g_scan_busy = TRUE])
    /\ last' = [last EXCEPT !.scans = @ + 1, !.log = Append(@, EvScanEnter)]
    /\ UNCHANGED <<registration, pc, monitor, idle, wlan, prev>>

\* scan_ssids() returns and the handler runs to its end.
scan_handler_returns ==
    /\ pc = "loop"
    /\ g_scan_busy
    /\ \E ssids \in ScanReturns :
          LET m2 == Log([Data EXCEPT !.trace = trace,
                                     !.g_scan_busy = ScanBusyGuard_release(TRUE, @)], EvScan)
              m3 == notify_characteristic_value(m2, CHR_STATE, scan_value(ssids))
          IN  Commit(notify_state(SetState(m3, "SCAN_COMPLETE")))
    /\ last' = [last EXCEPT !.log = Append(@, EvScanReturn)]
    /\ UNCHANGED <<registration, pc, monitor, idle, wlan, prev>>

NextQueue ==
    \/ ip_monitor_newaddr
    \/ on_ipv4_ready_dispatched
    \/ scan_handler_enters
    \/ scan_handler_returns

\* The loop keeps running: an attached source is run in the end, and the
\* blocking scan returns.
SpecQueue ==
    /\ InitQueue
    /\ [][NextQueue]_vars
    /\ WF_vars(on_ipv4_ready_dispatched)
    /\ WF_vars(scan_handler_returns)

Runs(log) == SelectSeq(log, LAMBDA e : e.e = "run")

\* ------------------------------------------------------------------------
\* C38: while the main loop runs, every NEWADDR for IPv4 on wlan0 is
\* followed by exactly one run of on_ipv4_ready on the dispatcher, the runs
\* come in the order of the posts, and no run happens between the scan
\* handler's entry and its return, where SCAN_COMPLETE is emitted: an event
\* posted meanwhile is handled after it.
\* ------------------------------------------------------------------------
C38_PostedThenHandled ==
    /\ \A n \in 1..MaxPosts :
          (last.posted >= n) ~> (\E i \in 1..Len(last.log) : last.log[i] = EvRun(n))
    /\ [](/\ Runs(last.log) = [i \in 1..Len(Runs(last.log)) |-> EvRun(i)]
          /\ Len(Runs(last.log)) + Len(last.queue) = last.posted
          /\ idle = Len(last.queue)
          /\ \A i \in 1..Len(last.log) :
                last.log[i].e = "run" =>
                   /\ \E j \in 1..(i - 1) : last.log[j] = EvPost(last.log[i].id)
                   /\ \A j \in 1..(i - 1) :
                         last.log[j] = EvScanEnter =>
                            \E k \in (j + 1)..(i - 1) : last.log[k] = EvScanReturn
          /\ g_scan_busy <=> g_state = "SCANNING"
          /\ (~g_scan_busy /\ last.scans > 0 /\ last.log[Len(last.log)] = EvScanReturn) =>
                /\ g_state = "SCAN_COMPLETE"
                /\ Emitted(trace)[Len(Emitted(trace))].v = "{\"state\":\"SCAN_COMPLETE\"}")

\* Two events, the second posted while the scan blocks, both handled after
\* the scan in the order of their posts.
C38_Witness ==
    last.log = <<EvPost(1), EvScanEnter, EvPost(2), EvScanReturn, EvRun(1), EvRun(2)>>

\* ------------------------------------------------------------------------
\* The registration with BlueZ with its context: in this specification
\* registration is a record of the call in flight (stage), of the heap
\* object reg_ctx (ctx, frees, used_after_free), of the calls sent and of
\* the completions delivered to each callback.
\* ------------------------------------------------------------------------
ErrorMessages == {"unknown error", "org.bluez.Error.AlreadyExists"}

\* What g_dbus_connection_call_finish hands to on_async_call_finished.
Completions == {[ok |-> TRUE, msg |-> ""]} \cup {[ok |-> FALSE, msg |-> e] : e \in ErrorMessages}

UseCtx(r) == [r EXCEPT !.used_after_free = @ \/ r.ctx = "freed"]

free_ctx(r) == [r EXCEPT !.ctx = "freed", !.frees = @ + 1]

\* The callback given to register_advertisement_async.
advertisement_cb(r, ok2, err2) ==
    IF ~ok2
    THEN [free_ctx(r) EXCEPT !.stage = "advertisement_failed", !.msg = err2]
    ELSE [free_ctx(r) EXCEPT !.stage = "registered"]

\* The callback given to register_gatt_application_async, freeing the
\* context before it requests the advertisement.
application_cb_frees_first(r, ok, err) ==
    IF ~ok
    THEN [free_ctx(r) EXCEPT !.stage = "application_failed", !.msg = err]
    ELSE [UseCtx(free_ctx(r)) EXCEPT !.stage = "RegisterAdvertisement",
                                     !.calls = Append(@, "RegisterAdvertisement")]

\* The callback given to register_gatt_application_async.
application_cb(r, ok, err) ==
    IF ~ok
    THEN [free_ctx(r) EXCEPT !.stage = "application_failed", !.msg = err]
    ELSE [UseCtx(r) EXCEPT !.stage = "RegisterAdvertisement",
                           !.calls = Append(@, "RegisterAdvertisement")]

InitCtx ==
    /\ pc = "loop"
    /\ monitor = "listening"
    /\ idle = 0
    /\ g_state = "UNCONFIGURED"
    /\ g_chars = Paths
    /\ notifying = [p \in Paths |-> FALSE]
    /\ value_ay = [p \in Paths |-> ReadCallback([g_state |-> "UNCONFIGURED"], p)]
    /\ g_scan_busy = FALSE
    /\ wlan \in {[ap |-> <<>>, ip |-> ""], [ap |-> <<"HomeNet">>, ip |-> ""]}
    /\ trace = <<>>
    /\ last = NoRun
    /\ prev = NoPrev
    /\ registration = [stage |-> "none", ctx |-> "allocated", frees |-> 0,
                       used_after_free |-> FALSE, calls |-> <<>>,
                       delivered |-> [RegisterApplication |-> 0, RegisterAdvertisement |-> 0],
                       msg |-> ""]

\* The idle source added by main(): it reads ctx and sends RegisterApplication.
ctx_start_async_registration ==
    /\ pc = "loop"
    /\ registration.stage = "none"
    /\ registration' = [UseCtx(registration) EXCEPT !.stage = "RegisterApplication",
                                                    !.calls = Append(@, "RegisterApplication")]
    /\ UNCHANGED <<pc, monitor, idle, g_state, g_chars, notifying, value_ay, g_scan_busy,
                   wlan, trace, last, prev>>

\* on_async_call_finished for RegisterApplication.
application_call_finished ==
    /\ pc = "loop"
    /\ registration.stage = "RegisterApplication"
    /\ \E c \in Completions :
          registration' =
             application_cb([registration EXCEPT !.delivered.RegisterApplication = @ + 1],
                            c.ok, c.msg)
    /\ UNCHANGED <<pc, monitor, idle, g_state, g_chars, notifying, value_ay, g_scan_busy,
                   wlan, trace, last, prev>>

\* on_async_call_finished for RegisterAdvertisement.
advertisement_call_finished ==
    /\ pc = "loop"
    /\ registration.stage = "RegisterAdvertisement"
    /\ \E c \in Completions :
          registration' =
             advertisement_cb([registration EXCEPT !.delivered.RegisterAdvertisement = @ + 1],
                              c.ok, c.msg)
    /\ UNCHANGED <<pc, monitor, idle, g_state, g_chars, notifying, value_ay, g_scan_busy,
                   wlan, trace, last, prev>>

NextCtx ==
    \/ ctx_start_async_registration
    \/ application_call_finished
    \/ advertisement_call_finished
    \/ ip_monitor_skip
    \/ ip_monitor_post
    \/ ipv4_ready_idle
    \/ ReadValue
    \/ StartNotify
    \/ StopNotify

SpecCtx == InitCtx /\ [][NextCtx]_vars

\* ------------------------------------------------------------------------
\* C39: each registration call delivers its completion to its callback
\* once, RegisterAdvertisement is sent only after RegisterApplication has
\* completed with success and never after its failure, and the context is
\* freed exactly once on every completion path, after the last callback
\* that reads it.
\* ------------------------------------------------------------------------
C39_CallbacksAndContext ==
    LET r == registration
        done == r.stage \in {"application_failed", "advertisement_failed", "registered"}
    IN  /\ r.delivered.RegisterApplication =
              (IF r.stage \in {"none", "RegisterApplication"} THEN 0 ELSE 1)
        /\ r.delivered.RegisterAdvertisement =
              (IF r.stage \in {"advertisement_failed", "registered"} THEN 1 ELSE 0)
        /\ r.calls \in {<<>>, <<"RegisterApplication">>,
                        <<"RegisterApplication", "RegisterAdvertisement">>}
        /\ Len(r.calls) = 2 <=>
              r.stage \in {"RegisterAdvertisement", "advertisement_failed", "registered"}
        /\ r.stage = "application_failed" => r.calls = <<"RegisterApplication">>
        /\ r.frees = (IF done THEN 1 ELSE 0)
        /\ r.ctx = (IF done THEN "freed" ELSE "allocated")
        /\ ~r.used_after_free
        /\ r.msg # "" <=> r.stage \in {"application_failed", "advertisement_failed"}

\* The advertisement refused after the application was accepted.
C39_Witness ==
    /\ registration.stage = "advertisement_failed"
    /\ registration.msg = "org.bluez.Error.AlreadyExists"
    /\ registration.calls = <<"RegisterApplication", "RegisterAdvertisement">>
    /\ registration.frees = 1
    /\ last.op = "ReadValue"

====
